---- MODULE Spec2Model ----
(***************************************************************************)
(* Digilearn-BE: the polymorphic single-link association of News and       *)
(* Posts (news_entities / posts_entities), its request handlers and the    *)
(* PostgreSQL tables they read and write.                                  *)
(*                                                                         *)
(* Every SQL statement a handler awaits is one step of the request that    *)
(* runs it, so requests interleave between their statements (BEGIN, which  *)
(* reads and writes nothing, is taken with the statement that follows it). *)
(* A statement sent                                                        *)
(* through db.query is committed on its own; the statements a handler      *)
(* sends through a client between BEGIN and COMMIT are buffered in the     *)
(* request's transaction and published together by COMMIT (READ COMMITTED: *)
(* other requests never see them earlier).  Rows written inside a          *)
(* transaction stay locked until COMMIT or ROLLBACK.                       *)
(*                                                                         *)
(* The title and content of a news item (content of a post) are modelled   *)
(* by the single field content: the handlers validate and write them       *)
(* together in the same statement.                                         *)
(***************************************************************************)
EXTENDS Integers, Sequences, FiniteSets, TLC

\* ------------------------------------------------------------------ bounds
NumProcs == 2          \* requests being served at the same time
MaxId == 2             \* news / posts ids the SERIAL sequences hand out
MaxEntityId == 1       \* class / module / assignment ids a request may name
MaxReqs == 2           \* requests started in one behaviour
MaxNewFiles == 2       \* files one module or submit request uploads
MaxKept == 6           \* URLs the existingFiles array of a submit may list
MaxTime == 2           \* ticks of the clock

Procs == 1..NumProcs
OwnerIds == 1..MaxId
EntityIds == 1..MaxEntityId

\* ------------------------------------------------------- values and inputs
NullStr == ""          \* SQL NULL / JS undefined of a text value
NullId == 0            \* SQL NULL / JS undefined of an id (SERIAL ids start at 1)
NoProc == NullId   \* no transaction holds the row
NoToken == NullId  \* the key user_token:<userId> is absent

Tables == {"news", "posts"}
\* the routers a behaviour may serve: news, posts, modules, assignments
\* (submit), classes (enroll) or users (register, login, logout)
Features == Tables \cup {"modules", "assignments", "classes", "users"}
\* the SERIAL sequences: one per router's table, and those of the
\* submissions and class_enrollments tables
Serials == Features \cup {"submissions", "class_enrollments"}
\* const MAX_FILES = 5 (modules.js, and the same in the assignments router)
MAX_FILES == 5
\* assignments.deadline of the seeded assignment, on the clock of the model
Deadline == 1
Kinds == {"class", "module", "assignment"}
\* the kinds a request may name: the three linkable ones and one that is not
InputKinds == Kinds \cup {"folder"}
Users == {1, 2, 3}
\* users.role, fixed at registration (no route changes it)
role == [u \in Users |-> IF u = 3 THEN "praktikan" ELSE "aslab"]
\* the text a create request carries, and the text an update request carries
NewContent == "a"
EditedContent == "b"

\* existingFiles: the number of URLs in the JSON array a submit keeps;
\* password: whether the password of a login matches
NoReq == [n |-> 0, op |-> NullStr, tbl |-> NullStr, user |-> NullId, id |-> NullId,
          content |-> NullStr, linkedType |-> NullStr, linkedId |-> NullId,
          files |-> 0, existingFiles |-> 0, password |-> NullStr,
          path |-> <<>>]
\* client: the pool connection of the request (none, held, released);
\* releases: the calls of client.release(); filesDone: files stored so far;
\* upload: "failed" once uploadFile has thrown
NoLoc == [linkCheck |-> FALSE, txn |-> <<>>, newId |-> NullId,
          wrote |-> FALSE, pre |-> {}, body |-> <<>>,
          client |-> "none", releases |-> 0, filesDone |-> 0,
          upload |-> "none", submissionCheck |-> FALSE]

VARIABLES
  feature,      \* the router whose requests this behaviour serves
  primary,      \* primary[t]: rows of table news / posts
  entities,     \* entities[t]: rows of news_entities / posts_entities
  nextId,       \* nextId[t]: the SERIAL sequence of news.id / posts.id
  classes, modules, assignments,   \* rows of the three linkable tables
  moduleFiles,  \* moduleFiles[m]: number of module_files rows of module m
  lock,         \* lock[t][kind][id]: transaction holding the row, or NoProc
  pc, req, loc, \* per request: position, inputs, handler locals and response body
  status,       \* per request: HTTP status answered, 0 while running
  started,      \* requests started so far
  submissions,  \* rows of table submissions
  now,          \* the clock: new Date() and CURRENT_TIMESTAMP
  enrollments,  \* rows of table class_enrollments
  users,        \* ids of the rows of table users
  tokens        \* tokens[u]: value of the key user_token:<u>, NoToken if absent

vars == <<feature, primary, entities, nextId, classes, modules, assignments,
          moduleFiles, lock, pc, req, loc, status, started,
          submissions, now, enrollments, users, tokens>>

\* the tables, the clock and the session store of the other routers
otherVars == <<submissions, now, enrollments, users, tokens>>

dbVars == <<primary, entities, nextId, lock>>
targetVars == <<classes, modules, assignments, moduleFiles>>

\* ---------------------------------------------------------------- schema
\* A linkable row of the given kind with the given id (SELECT id FROM <kind> WHERE id = $1).
TargetRows(kind, id) ==
  CASE kind = "class" -> {r \in classes : r.id = id}
    [] kind = "module" -> {r \in modules : r.id = id}
    [] kind = "assignment" -> {r \in assignments : r.id = id}
    [] OTHER -> {}

\* The handler without its existence check.
entityExistsUnchecked(kind, id) == TRUE

entityExists(kind, id) == TargetRows(kind, id) # {}

Truthy(linkedType, linkedId) == linkedType # NullStr /\ linkedId # NullId

\* The handlers without their test of the kind.
validKindAny(kind) == TRUE

\* ['class', 'module', 'assignment'].includes(linkedType)
validKind(kind) == kind \in Kinds

\* What a transaction is about to publish: a sequence of row writes.
\* Op records: [k, id, content, by, entity_type, entity_id].
WOp(k, id, content, by, et, ei) ==
  [k |-> k, id |-> id, content |-> content, by |-> by,
   entity_type |-> et, entity_id |-> ei]

\* The foreign key declared without ON DELETE CASCADE.
CascadeOff(e, id) == e

\* news_id INTEGER REFERENCES news(id) ON DELETE CASCADE : the link rows left
\* when owner id is deleted.
Cascade(e, id) == {l \in e : l.owner # id}

\* The UPDATE setting only entity_id.
SetLinkIdOnly(l, et, ei) == [l EXCEPT !.entity_id = ei]

\* UPDATE news_entities SET entity_type = $1, entity_id = $2
SetLink(l, et, ei) == [l EXCEPT !.entity_type = et, !.entity_id = ei]

\* The replacement written as DELETE FROM news_entities WHERE news_id = $1
\* with the INSERT of the new row left to a later statement.
deleteThenInsert(e, w) == {l \in e : l.owner # w.id}

\* UPDATE news_entities SET ... WHERE news_id = $3 : the link row of the owner
\* is changed in place, by one statement.
updateLink(e, w) ==
  {IF l.owner = w.id THEN SetLink(l, w.entity_type, w.entity_id) ELSE l : l \in e}

\* created_at TIMESTAMP DEFAULT CURRENT_TIMESTAMP: the time of the BEGIN of
\* the inserting transaction.  BEGIN is taken with the INSERT, and the
\* sequence numbers the inserts in the order they happen, so the stamp of an
\* insert is the place of its id in that order.
Timestamp(id) == id

\* The effect of one row write on the pair of tables (primary rows, link rows).
ApplyOp(w, db) ==
  CASE w.k = "insOwner" ->
         [p |-> db.p \cup {[id |-> w.id, created_by |-> w.by, content |-> w.content,
                            created_at |-> Timestamp(w.id)]},
          e |-> db.e]
    [] w.k = "updOwner" ->
         [p |-> {IF r.id = w.id THEN [r EXCEPT !.content = w.content] ELSE r : r \in db.p},
          e |-> db.e]
    [] w.k = "delOwner" ->
         [p |-> {r \in db.p : r.id # w.id},
          e |-> Cascade(db.e, w.id)]
    [] w.k = "insLink" ->
         [p |-> db.p,
          e |-> db.e \cup {[owner |-> w.id, entity_type |-> w.entity_type,
                            entity_id |-> w.entity_id]}]
    [] w.k = "updLink" ->
         [p |-> db.p, e |-> updateLink(db.e, w)]
    [] w.k = "delLink" ->
         [p |-> db.p, e |-> {l \in db.e : l.owner # w.id}]
    [] w.k = "insModule" ->
         [p |-> db.p \cup {[id |-> w.id, class_id |-> w.entity_id, title |-> w.content]},
          e |-> db.e]
    [] w.k = "updModule" ->
         [p |-> {IF r.id = w.id THEN [r EXCEPT !.title = w.content] ELSE r : r \in db.p},
          e |-> db.e]
    [] w.k = "insFile" ->
         [p |-> db.p, e |-> [db.e EXCEPT ![w.id] = @ + 1]]
    [] OTHER -> db

RECURSIVE ApplyAll(_, _)
ApplyAll(ws, db) ==
  IF ws = <<>> THEN db ELSE ApplyAll(Tail(ws), ApplyOp(Head(ws), db))

\* The tables as the statements of request p see them: the committed rows
\* plus the writes of p's own open transaction.
View(p) ==
  ApplyAll(loc[p].txn, [p |-> primary[req[p].tbl], e |-> entities[req[p].tbl]])

\* The modules and their files as the statements of request p see them.
ModuleView(p) == ApplyAll(loc[p].txn, [p |-> modules, e |-> moduleFiles])

\* Request q has an uncommitted write of the given kind on row id.
Buffered(q, kind, id) ==
  \E k \in 1..Len(loc[q].txn) : loc[q].txn[k].k = kind /\ loc[q].txn[k].id = id

\* The link table declared without its primary key.
PKViolationOff(db, id) == FALSE

\* PRIMARY KEY (news_id) / (posts_id): a second row for the same owner is refused.
PKViolation(db, id) == \E l \in db.e : l.owner = id
\* REFERENCES news(id) / posts(id): the owner row must exist.
FKViolation(db, id) == ~ \E r \in db.p : r.id = id

\* Statements that do not wait for the row locks of other transactions.
FreeAlways(t, kind, id, p) == TRUE

\* The row is not locked by another transaction: a statement that writes
\* it waits until it is.
Free(t, kind, id, p) == lock[t][kind][id] \in {NoProc, p}

Locked(t, kind, id, p) == [lock EXCEPT ![t][kind][id] = p]

Released(p) ==
  [t \in Tables |-> [kind \in {"owner", "link"} |-> [i \in OwnerIds |->
      IF lock[t][kind][i] = p THEN NoProc ELSE lock[t][kind][i]]]]

\* ------------------------------------------------------------------ reads
LinkOf(db, id) == {l \in db.e : l.owner = id}

\* The join on the id alone: LEFT JOIN classes c ON e.entity_id = c.id
TitleOfAnyKind(kind, l) ==
  IF TargetRows(kind, l.entity_id) # {}
    THEN (CHOOSE r \in TargetRows(kind, l.entity_id) : TRUE).title
    ELSE NullStr

\* LEFT JOIN classes c ON e.entity_type = 'class' AND e.entity_id = c.id
TitleOf(kind, l) ==
  IF l.entity_type = kind /\ TargetRows(kind, l.entity_id) # {}
    THEN (CHOOSE r \in TargetRows(kind, l.entity_id) : TRUE).title
    ELSE NullStr

\* One result row of the SELECT ... LEFT JOIN of GET /:id and GET /.
Joined(r, l) ==
  [id |-> r.id, created_by |-> r.created_by, content |-> r.content,
   created_at |-> r.created_at,
   linked_type |-> l.entity_type, linked_id |-> l.entity_id,
   class_title |-> TitleOf("class", l),
   module_title |-> TitleOf("module", l),
   assignment_title |-> TitleOf("assignment", l)]

NoLink == [owner |-> NullId, entity_type |-> NullStr, entity_id |-> NullId]

\* The join written on the wrong column: ON n.id = e.entity_id.
JoinLinkOnEntityId(t, id) == {l \in entities[t] : l.entity_id = id}

\* LEFT JOIN news_entities e ON n.id = e.news_id
JoinLink(t, id) == {l \in entities[t] : l.owner = id}

\* GET /:id : the rows the query returns for one owner id.
getById(t, id) ==
  UNION {IF JoinLink(t, r.id) = {}
           THEN {Joined(r, NoLink)}
           ELSE {Joined(r, l) : l \in JoinLink(t, r.id)}
         : r \in {x \in primary[t] : x.id = id}}

\* GET / : the rows of the list query.
listAll(t) == UNION {getById(t, r.id) : r \in primary[t]}

\* ORDER BY n.created_at DESC: the rows as the sequence the query returns.
RECURSIVE orderByCreatedAtDesc(_)
orderByCreatedAtDesc(rows) ==
  IF rows = {} THEN <<>>
  ELSE LET newest == CHOOSE r \in rows : \A x \in rows : x.created_at <= r.created_at
       IN <<newest>> \o orderByCreatedAtDesc(rows \ {newest})

\* The rows in the order the table happens to give them (no ORDER BY); with
\* at most one row per id this is the one row of GET /:id or none.
RECURSIVE unordered(_)
unordered(rows) ==
  IF rows = {} THEN <<>>
  ELSE LET r == CHOOSE x \in rows : TRUE IN <<r>> \o unordered(rows \ {r})

\* The join of the list-by-entity queries written as a LEFT JOIN: owners
\* without a matching link row stay in the result.
forEntityLeftJoin(t, kind, id) ==
  {[id |-> r.id, created_by |-> r.created_by, content |-> r.content,
    created_at |-> r.created_at, linked_type |-> kind, linked_id |-> id]
     : r \in primary[t]}

\* SELECT n.*, e.entity_type as linked_type, e.entity_id as linked_id
\* FROM news n JOIN news_entities e ON n.id = e.news_id
\* WHERE e.entity_type = $1 AND e.entity_id = $2
forEntity(t, kind, id) ==
  UNION {{[id |-> r.id, created_by |-> r.created_by, content |-> r.content,
           created_at |-> r.created_at,
           linked_type |-> l.entity_type, linked_id |-> l.entity_id]
            : l \in {x \in JoinLink(t, r.id) :
                       x.entity_type = kind /\ x.entity_id = id}}
         : r \in primary[t]}

\* GET /for/:type/:id (posts: GET /posts/for/:type/:id)
listByEntity(t, kind, id) == orderByCreatedAtDesc(forEntity(t, kind, id))

\* GET /entity/:entityType/:entityId : the same owners, SELECT n.* only.
listEntity(t, kind, id) ==
  LET rows == listByEntity(t, kind, id)
  IN [k \in 1..Len(rows) |->
        [id |-> rows[k].id, created_by |-> rows[k].created_by,
         content |-> rows[k].content, created_at |-> rows[k].created_at]]

\* An id as the request carries it: the decimal digits of a form field.
DecimalText(n) == IF n < 10 THEN <<n>> ELSE <<n \div 10, n % 10>>

\* parseInt(linkedId): the number the leading digits denote.
RECURSIVE parseIntFrom(_, _)
parseIntFrom(s, acc) ==
  IF s = <<>> \/ Head(s) \notin 0..9 THEN acc
  ELSE parseIntFrom(Tail(s), 10 * acc + Head(s))

parseInt(s) == parseIntFrom(s, 0)

\* The title read keyed by the id of the new owner instead of the target.
titleReadByOwnerId(kind, linkedId, newId) ==
  {r.title : r \in TargetRows(kind, newId)}

\* SELECT title FROM <kind> WHERE id = $1, [linkedId] after COMMIT
titleRead(kind, linkedId, newId) ==
  {r.title : r \in TargetRows(kind, linkedId)}

\* The body of the 201 answer: the RETURNING * row of the insert, completed
\* with linked_type, linked_id and, when the target row is found, its title.
createResponse(r, newId) ==
  LET row == [id |-> newId, created_by |-> r.user, content |-> r.content,
              created_at |-> Timestamp(newId)]
      titles == titleRead(r.linkedType, r.linkedId, newId)
      title(kind) == IF r.linkedType = kind /\ titles # {}
                       THEN CHOOSE x \in titles : TRUE ELSE NullStr
  IN IF Truthy(r.linkedType, r.linkedId)
       THEN [id |-> row.id, created_by |-> row.created_by, content |-> row.content,
             created_at |-> row.created_at,
             linked_type |-> r.linkedType,
             linked_id |-> parseInt(DecimalText(r.linkedId)),
             class_title |-> title("class"),
             module_title |-> title("module"),
             assignment_title |-> title("assignment")]
       ELSE Joined(row, NoLink)

\* ---------------------------------------------------------- authorization
\* authorize(['aslab']) in front of every mutating news route.
authorize(t, user) == t \in {"news", "modules"} => role[user] = "aslab"

\* The news test without its aslab clause.
NewsCreatorOnly(row, user) == row.created_by = user

NewsCanMutate(row, user) == row.created_by = user \/ role[user] = "aslab"

\* The posts test with the aslab clause of the news test.
PostsCreatorOrAslab(row, user) == row.created_by = user \/ role[user] = "aslab"

PostsCanMutate(row, user) == row.created_by = user

canMutate(t, row, user) ==
  IF t = "news" THEN NewsCanMutate(row, user) ELSE PostsCanMutate(row, user)

\* ------------------------------------------------------------------- init
\* The database after user 1 has created the first item of the router under
\* study, with or without a link to class 1; one class, one module and one
\* assignment exist, and the module has one file less than it may have.
Init ==
  /\ feature \in Features
  /\ primary = [t \in Tables |->
        IF t = feature
          THEN {[id |-> 1, created_by |-> 1, content |-> NewContent,
                 created_at |-> Timestamp(1)]}
          ELSE {}]
  /\ \E linked \in BOOLEAN :
       entities = [t \in Tables |->
         IF t = feature /\ linked
           THEN {[owner |-> 1, entity_type |-> "class", entity_id |-> 1]} ELSE {}]
  /\ \E submitted \in BOOLEAN :
       /\ submissions =
            IF feature = "assignments" /\ submitted
              THEN {[id |-> 1, assignment_id |-> 1, user_id |-> 3,
                     content |-> NewContent, file_url |-> 0,
                     submitted_at |-> 0, updated_at |-> 0]}
              ELSE {}
       /\ nextId = [t \in Serials |->
            IF t \in Features /\ (t = feature \/ t = "modules") THEN 2
            ELSE IF t = "submissions" /\ feature = "assignments" /\ submitted THEN 2
            ELSE 1]
  /\ now = 0
  /\ \E enrolled \in BOOLEAN :
       enrollments =
         IF feature = "classes" /\ enrolled
           THEN {[id |-> 0, class_id |-> 1, user_id |-> 3]} ELSE {}
  /\ users = IF feature = "users" THEN Users \ {2} ELSE Users
  /\ tokens = [u \in Users |-> NoToken]
  /\ classes = {[id |-> 1, title |-> "Class 1"]}
  /\ modules = {[id |-> 1, class_id |-> 1, title |-> "Module 1"]}
  /\ assignments = {[id |-> 1, class_id |-> 1, title |-> "Assignment 1"]}
  /\ moduleFiles = [m \in OwnerIds |-> IF m = 1 THEN MAX_FILES - 1 ELSE 0]
  /\ lock = [t \in Tables |-> [kind \in {"owner", "link"} |-> [i \in OwnerIds |-> NoProc]]]
  /\ pc = [p \in Procs |-> "idle"]
  /\ req = [p \in Procs |-> NoReq]
  /\ loc = [p \in Procs |-> NoLoc]
  /\ status = [p \in Procs |-> 0]
  /\ started = 0

\* authenticate in front of logout: the request carries a token of a user
\* that exists.
authenticate(user) == user \in users

\* authorize(['praktikan']) in front of submit and enroll
authorizePraktikan(user) == role[user] = "praktikan"

\* ------------------------------------------------------- request plumbing
Respond(p, code) ==
  /\ pc' = [pc EXCEPT ![p] = "done"]
  /\ status' = [status EXCEPT ![p] = code]

Goto(p, label) ==
  /\ pc' = [pc EXCEPT ![p] = label]
  /\ UNCHANGED status

SetLoc(p, l) == loc' = [loc EXCEPT ![p] = l]

\* const client = await db.pool.connect()
connect(l) == [l EXCEPT !.client = "held"]

\* The handler without its finally block.
releaseNever(l) == l

\* finally { client.release() }
release(l) == [l EXCEPT !.client = "released", !.releases = @ + 1]

\* The statement sent through db.query instead of the transaction's client.
ClientQueryOutsideTxn(p, w, l) ==
  LET t == req[p].tbl
      db == ApplyOp(w, [p |-> primary[t], e |-> entities[t]])
  IN /\ loc' = [loc EXCEPT ![p] = [l EXCEPT !.wrote = TRUE]]
     /\ primary' = [primary EXCEPT ![t] = db.p]
     /\ entities' = [entities EXCEPT ![t] = db.e]

\* A statement sent through the transaction's client: buffered until COMMIT.
\* l is the record of handler locals after the statement.
ClientQuery(p, w, l) ==
  /\ loc' = [loc EXCEPT ![p] = [l EXCEPT !.txn = Append(l.txn, w), !.wrote = TRUE]]
  /\ UNCHANGED <<primary, entities>>

\* A statement sent through db.query: committed on its own.
DbQuery(p, w, l) ==
  LET t == req[p].tbl
      db == ApplyOp(w, [p |-> primary[t], e |-> entities[t]])
  IN /\ loc' = [loc EXCEPT ![p] = [l EXCEPT !.wrote = TRUE]]
     /\ primary' = [primary EXCEPT ![t] = db.p]
     /\ entities' = [entities EXCEPT ![t] = db.e]

\* Requests that will still take an id from the sequence of table t.
Allocating(t) ==
  {q \in Procs : req[q].op \in {"create", "mcreate"} /\ req[q].tbl = t
                 /\ pc[q] \in {"c_entity", "c_ins", "mc_class", "mc_ins"}}

\* Bodies that carry only linkedType or only linkedId.
PartialTargets == {<<"class", NullId>>, <<NullStr, 1>>}

\* The (linkedType, linkedId) pairs of a create / update body.
BodyTargets ==
  {<<NullStr, NullId>>} \cup (InputKinds \X EntityIds) \cup PartialTargets

\* The bodies of POST /modules and PUT /modules/:id: class_id (create), the
\* module id (update), title and content, and the files multer hands on.
ModuleRequests ==
  {[op |-> "mcreate", tbl |-> "modules", user |-> u, id |-> NullId,
    content |-> NewContent, linkedType |-> NullStr, linkedId |-> c, files |-> k]
     : u \in Users, c \in EntityIds, k \in 0..MaxNewFiles}
  \cup
  {[op |-> "mupdate", tbl |-> "modules", user |-> u, id |-> i,
    content |-> EditedContent, linkedType |-> NullStr, linkedId |-> NullId, files |-> k]
     : u \in Users, i \in OwnerIds, k \in 0..MaxNewFiles}

OwnerRequests(t) ==
  {[op |-> "create", tbl |-> t, user |-> u, id |-> NullId, content |-> c,
    linkedType |-> tg[1], linkedId |-> tg[2]]
     : u \in Users, c \in {NewContent}, tg \in BodyTargets}
  \cup
  {[op |-> "update", tbl |-> t, user |-> u, id |-> i, content |-> c,
    linkedType |-> tg[1], linkedId |-> tg[2]]
     : u \in Users, i \in OwnerIds, c \in {EditedContent}, tg \in BodyTargets}
  \cup
  {[op |-> o, tbl |-> t, user |-> u, id |-> i, content |-> NullStr,
    linkedType |-> NullStr, linkedId |-> NullId]
     : o \in {"delete", "unlink"}, u \in Users, i \in OwnerIds}
  \cup
  {[op |-> "link", tbl |-> t, user |-> u, id |-> i, content |-> NullStr,
    linkedType |-> k, linkedId |-> e]
     : u \in Users, i \in OwnerIds, k \in InputKinds, e \in EntityIds}
  \cup
  {[op |-> o, tbl |-> t, user |-> NullId, id |-> NullId, content |-> NullStr,
    linkedType |-> k, linkedId |-> e]
     : o \in (IF t = "news" THEN {"for", "entity"} ELSE {"for"}),
       k \in InputKinds, e \in EntityIds}
  \cup
  {[op |-> "list", tbl |-> t, user |-> NullId, id |-> NullId, content |-> NullStr,
    linkedType |-> NullStr, linkedId |-> NullId]}
  \cup
  {[op |-> "get", tbl |-> t, user |-> NullId, id |-> i, content |-> NullStr,
    linkedType |-> NullStr, linkedId |-> NullId] : i \in OwnerIds}

\* ----------------------------------------------------------------- routing
\* The GET routes of the news router in the order router.get registers them,
\* each with the first await of its handler.
NewsGetRoutes ==
  << [path |-> <<>>, label |-> "g_list"],
     [path |-> <<":id">>, label |-> "g_id"],
     [path |-> <<"for", ":type", ":id">>, label |-> "f_read"],
     [path |-> <<"with-entity">>, label |-> "we_read"],
     [path |-> <<"entity", ":entityType", ":entityId">>, label |-> "e_read"] >>

\* A route segment written with a leading colon is a parameter: it matches
\* any one segment of the request path.
isParam(seg) == seg \in {":id", ":type", ":entityType", ":entityId"}

matches(route, path) ==
  /\ Len(route) = Len(path)
  /\ \A k \in DOMAIN route : isParam(route[k]) \/ route[k] = path[k]

\* Express hands the request to the first registered route whose path
\* matches; the handlers here answer and never call next().
dispatch(path) ==
  LET hits == {k \in DOMAIN NewsGetRoutes : matches(NewsGetRoutes[k].path, path)}
  IN IF hits = {}
       THEN "none"
       ELSE NewsGetRoutes[CHOOSE k \in hits : \A j \in hits : k <= j].label

\* What PostgreSQL makes of a text parameter compared with an integer column:
\* the number it spells, or an error (invalid input syntax for type integer).
NotAnInteger == -1

integerOf(text) ==
  CASE text = "1" -> 1
    [] text = "2" -> 2
    [] OTHER -> NotAnInteger

\* GET /with-entity
WithEntityPath == <<"with-entity">>

RouteRequests ==
  {[op |-> "route", tbl |-> "news", user |-> NullId,
    id |-> IF dispatch(pa) = "g_id" THEN integerOf(pa[1]) ELSE NullId,
    content |-> NullStr, linkedType |-> NullStr, linkedId |-> NullId,
    path |-> pa] : pa \in {WithEntityPath}}

\* The lengths of the JSON array existingFiles a submit may carry: none kept,
\* one below the limit, more than the limit.
KeptCounts == {0, MAX_FILES - 1, MaxKept}

\* POST /assignments/:id/submit : content, existingFiles and the files
\* multer hands on.
SubmitRequests ==
  {[op |-> "submit", tbl |-> "submissions", user |-> u, id |-> a,
    content |-> EditedContent, files |-> k, existingFiles |-> e]
     : u \in Users, a \in EntityIds, k \in 0..MaxNewFiles, e \in KeptCounts}

\* POST /classes/:id/enroll
EnrollRequests ==
  {[op |-> "enroll", tbl |-> "class_enrollments", user |-> u, id |-> c]
     : u \in Users, c \in EntityIds}

\* POST /register and POST /login (the user is named by the email of the
\* body), POST /logout (the user is the authenticated one).
SessionRequests ==
  {[op |-> o, tbl |-> "users", user |-> u, password |-> "right"]
     : o \in {"register", "logout"}, u \in Users}
  \cup
  {[op |-> "login", tbl |-> "users", user |-> u, password |-> w]
     : u \in Users, w \in {"right", "wrong"}}

Requests(t) ==
  CASE t = "modules" -> ModuleRequests
    [] t = "assignments" -> SubmitRequests
    [] t = "classes" -> EnrollRequests
    [] t = "users" -> SessionRequests
    [] t = "news" -> OwnerRequests(t) \cup RouteRequests
    [] OTHER -> OwnerRequests(t)

\* The routes that only read; the news ones carry no middleware, the posts
\* ones at most authenticate.
ReadOps == {"for", "entity", "list", "get", "route"}

\* The first await of each handler, after the synchronous validation.
FirstLabel(r) ==
  CASE r.op = "create" -> IF Truthy(r.linkedType, r.linkedId) THEN "c_entity" ELSE "c_ins"
    [] r.op = "update" -> "u_check"
    [] r.op = "delete" -> "d_check"
    [] r.op = "link" -> "l_check"
    [] r.op = "unlink" -> "x_check"
    [] r.op = "for" -> "f_read"
    [] r.op = "entity" -> "e_read"
    [] r.op = "list" -> "g_list"
    [] r.op = "get" -> "g_id"
    [] r.op = "route" -> dispatch(r.path)
    [] r.op = "mcreate" -> "mc_class"
    [] r.op = "mupdate" -> "mu_check"
    [] r.op = "submit" -> "s_check"
    [] r.op = "enroll" -> "en_class"
    [] r.op = "register" -> "r_find"
    [] r.op = "login" -> "li_find"
    [] r.op = "logout" -> "lo_del"

\* A request arrives: middleware, then the handler up to its first await.
Start(p) ==
  /\ pc[p] \in {"idle", "done"}
  /\ \A q \in Procs : q < p => pc[q] \notin {"idle", "done"}
  /\ started < MaxReqs
  /\ \E r \in Requests(feature) :
       /\ r.op \in {"create", "mcreate"} =>
            nextId[r.tbl] + Cardinality(Allocating(r.tbl)) <= MaxId
       /\ req' = [req EXCEPT ![p] = r @@ [n |-> started + 1] @@ NoReq]
       /\ IF r.op \notin ReadOps /\ ~ authorize(r.tbl, r.user)
            THEN Respond(p, 403)
            ELSE IF r.op \in {"submit", "enroll"} /\ ~ authorizePraktikan(r.user)
              THEN Respond(p, 403)
            ELSE IF r.op = "logout" /\ ~ authenticate(r.user)
              THEN Respond(p, 401)
            ELSE IF r.op \in {"for", "entity"} /\ ~ validKind(r.linkedType)
              THEN Respond(p, 400)
            ELSE IF r.op \in {"create", "update", "mcreate", "mupdate"}
                    /\ r.content = NullStr
              THEN Respond(p, 400)
            ELSE IF r.op \in {"create", "update"} /\ r.linkedType # NullStr
                    /\ ~ validKind(r.linkedType)
              THEN Respond(p, 400)
            ELSE /\ pc' = [pc EXCEPT ![p] = FirstLabel(r)]
                 /\ status' = [status EXCEPT ![p] = 0]
  /\ started' = started + 1
  /\ loc' = [loc EXCEPT ![p] = NoLoc]
  /\ UNCHANGED <<feature, otherVars, dbVars, targetVars>>

\* The handlers answering 403 for an owner id they do not find.
OwnerCheckForbidsMissing(p, label, kindChecked) ==
  /\ pc[p] = label
  /\ \A r \in primary[req[p].tbl] : r.id # req[p].id
  /\ Respond(p, 403)
  /\ UNCHANGED <<feature, otherVars, dbVars, targetVars, req, loc, started>>

\* SELECT * FROM news WHERE id = $1, then the creator-or-aslab test
\* (posts: SELECT * FROM posts, creator test), common to update, delete,
\* link and unlink.  kindChecked: the link route validates the kind here.
OwnerCheck(p, label, kindChecked) ==
  LET t == req[p].tbl
      rows == {r \in primary[t] : r.id = req[p].id}
  IN /\ pc[p] = label
     /\ IF rows = {}
          THEN Respond(p, 404) /\ UNCHANGED loc
          ELSE LET row == CHOOSE r \in rows : TRUE
               IN IF ~ canMutate(t, row, req[p].user)
                    THEN Respond(p, 403) /\ UNCHANGED loc
                    ELSE IF kindChecked /\ ~ validKind(req[p].linkedType)
                      THEN Respond(p, 400) /\ UNCHANGED loc
                    ELSE /\ UNCHANGED <<loc, status>>
                         /\ pc' = [pc EXCEPT ![p] =
                              CASE label = "u_check" ->
                                     IF Truthy(req[p].linkedType, req[p].linkedId)
                                       THEN "u_entity" ELSE "u_upd"
                                [] label = "d_check" -> "d_del"
                                [] label = "l_check" -> "l_entity"
                                [] label = "x_check" -> "x_del"]
     /\ UNCHANGED <<feature, otherVars, dbVars, targetVars, req, started>>

\* The existence check placed after the link write: the row is written and
\* the missing target is reported afterwards.
EntityCheckAfterWrite(p, label, next) ==
  /\ pc[p] = label
  /\ IF ~ entityExists(req[p].linkedType, req[p].linkedId)
       THEN /\ DbQuery(p, WOp("delLink", req[p].id, NullStr, NullId, NullStr, NullId),
                       loc[p])
            /\ Respond(p, 404)
            /\ UNCHANGED <<nextId, lock, targetVars, req, started, feature, otherVars>>
       ELSE /\ Goto(p, next)
            /\ UNCHANGED <<feature, otherVars, dbVars, targetVars, req, loc, started>>

\* switch (linkedType) { ... SELECT id FROM <kind> WHERE id = $1 ... }
EntityCheck(p, label, next) ==
  /\ pc[p] = label
  /\ IF ~ entityExists(req[p].linkedType, req[p].linkedId)
       THEN Respond(p, 404)
       ELSE Goto(p, next)
  /\ UNCHANGED <<feature, otherVars, dbVars, targetVars, req, loc, started>>

\* -------------------------------------------------- update (PUT /:id)
UpdateCheck(p) == OwnerCheck(p, "u_check", FALSE)

UpdateEntity(p) == EntityCheck(p, "u_entity", "u_upd")

\* db.pool.connect(), BEGIN, then
\* UPDATE news SET title, content, image_url ... WHERE id = $4
UpdateOwner(p) ==
  LET t == req[p].tbl
      i == req[p].id
  IN /\ pc[p] = "u_upd"
     /\ Free(t, "owner", i, p)
     /\ IF \E r \in View(p).p : r.id = i
          THEN /\ ClientQuery(p, WOp("updOwner", i, req[p].content, NullId, NullStr, NullId),
                              connect(loc[p]))
               /\ lock' = Locked(t, "owner", i, p)
          ELSE /\ SetLoc(p, connect(loc[p]))
               /\ UNCHANGED <<primary, entities, lock>>
     /\ Goto(p, IF Truthy(req[p].linkedType, req[p].linkedId) THEN "u_linkCheck" ELSE "u_del")
     /\ UNCHANGED <<feature, otherVars, nextId, targetVars, req, started>>

\* SELECT * FROM news_entities WHERE news_id = $1 (inside the transaction)
UpdateLinkCheck(p) ==
  /\ pc[p] = "u_linkCheck"
  /\ SetLoc(p, [loc[p] EXCEPT !.linkCheck = LinkOf(View(p), req[p].id) # {}])
  /\ Goto(p, "u_write")
  /\ UNCHANGED <<feature, otherVars, dbVars, targetVars, req, started>>

\* if (linkCheck.rows.length > 0) UPDATE news_entities ... else INSERT INTO news_entities ...
UpdateLinkWrite(p) ==
  LET t == req[p].tbl
      i == req[p].id
      l == [loc[p] EXCEPT !.pre = LinkOf(View(p), i)]
  IN /\ pc[p] = "u_write"
     /\ Free(t, "link", i, p)
     /\ IF loc[p].linkCheck
          THEN /\ IF LinkOf(View(p), i) # {}
                    THEN /\ ClientQuery(p, WOp("updLink", i, NullStr, NullId,
                                               req[p].linkedType, req[p].linkedId), l)
                         /\ lock' = Locked(t, "link", i, p)
                    ELSE /\ SetLoc(p, l)
                         /\ UNCHANGED <<primary, entities, lock>>
               /\ Goto(p, "u_commit")
          ELSE IF PKViolation(View(p), i) \/ FKViolation(View(p), i)
            THEN /\ SetLoc(p, l)
                 /\ Goto(p, "rollback")
                 /\ UNCHANGED <<primary, entities, lock>>
            ELSE /\ ClientQuery(p, WOp("insLink", i, NullStr, NullId,
                                       req[p].linkedType, req[p].linkedId), l)
                 /\ lock' = Locked(t, "link", i, p)
                 /\ Goto(p, "u_commit")
     /\ UNCHANGED <<feature, otherVars, nextId, targetVars, req, started>>

\* The update handler without its else branch: an update that names no
\* target leaves the link as it is.
UpdateLinkKept(p) ==
  /\ pc[p] = "u_del"
  /\ SetLoc(p, [loc[p] EXCEPT !.pre = LinkOf(View(p), req[p].id)])
  /\ Goto(p, "u_commit")
  /\ UNCHANGED <<feature, otherVars, dbVars, targetVars, req, started>>

\* else DELETE FROM news_entities WHERE news_id = $1
UpdateLinkDelete(p) ==
  LET t == req[p].tbl
      i == req[p].id
      l == [loc[p] EXCEPT !.pre = LinkOf(View(p), i)]
  IN /\ pc[p] = "u_del"
     /\ Free(t, "link", i, p)
     /\ IF LinkOf(View(p), i) # {}
          THEN /\ ClientQuery(p, WOp("delLink", i, NullStr, NullId, NullStr, NullId), l)
               /\ lock' = Locked(t, "link", i, p)
          ELSE /\ SetLoc(p, l)
               /\ UNCHANGED <<primary, entities, lock>>
     /\ Goto(p, "u_commit")
     /\ UNCHANGED <<feature, otherVars, nextId, targetVars, req, started>>

\* COMMIT: the buffered writes become visible together, the row locks go.
Commit(p, label, next) ==
  LET t == req[p].tbl
      db == View(p)
  IN /\ pc[p] = label
     /\ primary' = [primary EXCEPT ![t] = db.p]
     /\ entities' = [entities EXCEPT ![t] = db.e]
     /\ lock' = Released(p)
     /\ SetLoc(p, [loc[p] EXCEPT !.txn = <<>>])
     /\ Goto(p, next)
     /\ UNCHANGED <<feature, otherVars, nextId, targetVars, req, started>>

UpdateCommit(p) == Commit(p, "u_commit", "u_read")

\* SELECT n.*, ... WHERE n.id = $1 ; res.json(completeNewsResult.rows[0])
UpdateRead(p) ==
  /\ pc[p] = "u_read"
  /\ SetLoc(p, release([loc[p] EXCEPT
                  !.body = unordered(getById(req[p].tbl, req[p].id))]))
  /\ Respond(p, 200)
  /\ UNCHANGED <<feature, otherVars, dbVars, targetVars, req, started>>

\* -------------------------------------------------- create (POST /)
CreateEntity(p) == EntityCheck(p, "c_entity", "c_ins")

\* db.pool.connect(), BEGIN, then
\* INSERT INTO news (title, content, image_url, created_by) ... RETURNING *
CreateOwner(p) ==
  LET t == req[p].tbl
      i == nextId[t]
  IN /\ pc[p] = "c_ins"
     /\ i \in OwnerIds
     /\ nextId' = [nextId EXCEPT ![t] = i + 1]
     /\ ClientQuery(p, WOp("insOwner", i, req[p].content, req[p].user, NullStr, NullId),
                    connect([loc[p] EXCEPT !.newId = i]))
     /\ lock' = Locked(t, "owner", i, p)
     /\ Goto(p, IF Truthy(req[p].linkedType, req[p].linkedId) THEN "c_link" ELSE "c_commit")
     /\ UNCHANGED <<feature, otherVars, targetVars, req, started>>

\* INSERT INTO news_entities (news_id, entity_type, entity_id) VALUES (news.id, ...)
CreateLink(p) ==
  LET t == req[p].tbl
      i == loc[p].newId
  IN /\ pc[p] = "c_link"
     /\ Free(t, "link", i, p)
     /\ IF PKViolation(View(p), i) \/ FKViolation(View(p), i)
          THEN /\ Goto(p, "rollback")
               /\ UNCHANGED <<loc, primary, entities, lock>>
          ELSE /\ ClientQuery(p, WOp("insLink", i, NullStr, NullId,
                                     req[p].linkedType, req[p].linkedId), loc[p])
               /\ lock' = Locked(t, "link", i, p)
               /\ Goto(p, "c_commit")
     /\ UNCHANGED <<feature, otherVars, nextId, targetVars, req, started>>

CreateCommit(p) == Commit(p, "c_commit", "c_read")

\* SELECT username FROM users ..., SELECT title FROM <kind> ... ; res.status(201)
CreateRead(p) ==
  /\ pc[p] = "c_read"
  /\ SetLoc(p, release([loc[p] EXCEPT
                  !.body = <<createResponse(req[p], loc[p].newId)>>]))
  /\ Respond(p, 201)
  /\ UNCHANGED <<feature, otherVars, dbVars, targetVars, req, started>>

\* ------------------------------------------- failure inside a transaction
TxnLabels == {"u_upd", "u_linkCheck", "u_write", "u_del", "u_commit",
              "c_ins", "c_link", "c_commit"}

\* The labels at which the handler takes its connection: db.pool.connect(),
\* BEGIN and the first statement are one step.
ConnectLabels == {"c_ins", "u_upd", "mc_ins", "mu_upd"}

\* db.pool.connect() throws: no connection was taken and the outer catch
\* block answers.
ConnectFails(p) ==
  /\ pc[p] \in ConnectLabels
  /\ Respond(p, 500)
  /\ UNCHANGED <<feature, otherVars, dbVars, targetVars, req, loc, started>>

\* A statement of the transaction throws (store unavailable): catch block.
\* At the first label the connection has been taken and BEGIN or the first
\* statement throws.
TxnFails(p) ==
  /\ pc[p] \in TxnLabels
  /\ SetLoc(p, connect(loc[p]))
  /\ Goto(p, "rollback")
  /\ UNCHANGED <<feature, otherVars, dbVars, targetVars, req, started>>

\* The reads that build the answer come after COMMIT but inside the same try
\* block: when one of them throws, the same catch block runs.
ReadLabels == {"c_read", "u_read"}

ReadFails(p) ==
  /\ pc[p] \in ReadLabels
  /\ Goto(p, "rollback")
  /\ UNCHANGED <<feature, otherVars, dbVars, targetVars, req, loc, started>>

\* if (file) { uploadResult = await uploadFile(file, 'news') } throws before
\* db.pool.connect(): the outer catch block answers.  Whether the request
\* carries an image is an input that nothing else reads.
UploadLabels == {"c_ins", "u_upd"}

UploadFails(p) ==
  /\ pc[p] \in UploadLabels
  /\ \E file \in BOOLEAN :
       /\ file
       /\ SetLoc(p, [loc[p] EXCEPT !.upload = "failed"])
       /\ Respond(p, 500)
  /\ UNCHANGED <<feature, otherVars, dbVars, targetVars, req, started>>

\* The catch block sending COMMIT where ROLLBACK belongs.
RollbackCommits(p) ==
  LET t == req[p].tbl
  IN /\ pc[p] = "rollback"
     /\ lock' = Released(p)
     /\ SetLoc(p, release([loc[p] EXCEPT !.txn = <<>>]))
     /\ Respond(p, 500)
     /\ IF t = "modules"
          THEN /\ modules' = ModuleView(p).p
               /\ moduleFiles' = ModuleView(p).e
               /\ UNCHANGED <<primary, entities, classes, assignments>>
          ELSE /\ primary' = [primary EXCEPT ![t] = View(p).p]
               /\ entities' = [entities EXCEPT ![t] = View(p).e]
               /\ UNCHANGED targetVars
     /\ UNCHANGED <<feature, otherVars, nextId, req, started>>

\* catch (error) { await client.query('ROLLBACK'); throw error; } -> 500
\* (after COMMIT there is no open transaction and ROLLBACK undoes nothing)
Rollback(p) ==
  /\ pc[p] = "rollback"
  /\ lock' = Released(p)
  /\ SetLoc(p, release([loc[p] EXCEPT !.txn = <<>>]))
  /\ Respond(p, 500)
  /\ UNCHANGED <<feature, otherVars, primary, entities, nextId, targetVars, req, started>>

\* The ROLLBACK statement itself throws (the connection is lost): the finally
\* block still runs, the new error reaches the outer catch block, and the
\* store ends the transaction of the lost connection without committing it.
RollbackFails(p) ==
  /\ pc[p] = "rollback"
  /\ lock' = Released(p)
  /\ SetLoc(p, release([loc[p] EXCEPT !.txn = <<>>]))
  /\ Respond(p, 500)
  /\ UNCHANGED <<feature, otherVars, primary, entities, nextId, targetVars, req, started>>

\* -------------------------------------------------- delete (DELETE /:id)
DeleteCheck(p) == OwnerCheck(p, "d_check", FALSE)

\* DELETE FROM news WHERE id = $1 (the link row goes by ON DELETE CASCADE)
DeleteOwner(p) ==
  LET t == req[p].tbl
      i == req[p].id
  IN /\ pc[p] = "d_del"
     /\ Free(t, "owner", i, p)
     /\ Free(t, "link", i, p)
     /\ IF \E r \in primary[t] : r.id = i
          THEN DbQuery(p, WOp("delOwner", i, NullStr, NullId, NullStr, NullId),
                       [loc[p] EXCEPT !.pre = LinkOf(View(p), i)])
          ELSE UNCHANGED <<loc, primary, entities>>
     /\ Respond(p, 200)
     /\ UNCHANGED <<feature, otherVars, nextId, lock, targetVars, req, started>>

\* ------------------------ link (POST /:id/link/:entityType/:entityId)
LinkCheck(p) == OwnerCheck(p, "l_check", TRUE)

LinkEntity(p) == EntityCheck(p, "l_entity", "l_linkCheck")

\* SELECT * FROM news_entities WHERE news_id = $1
LinkLinkCheck(p) ==
  /\ pc[p] = "l_linkCheck"
  /\ SetLoc(p, [loc[p] EXCEPT !.linkCheck = LinkOf(View(p), req[p].id) # {}])
  /\ Goto(p, "l_write")
  /\ UNCHANGED <<feature, otherVars, dbVars, targetVars, req, started>>

\* if (linkCheck.rows.length > 0) UPDATE news_entities ... else INSERT INTO news_entities ...
LinkWrite(p) ==
  LET t == req[p].tbl
      i == req[p].id
      l == [loc[p] EXCEPT !.pre = LinkOf(View(p), i)]
  IN /\ pc[p] = "l_write"
     /\ Free(t, "link", i, p)
     /\ IF loc[p].linkCheck
          THEN /\ IF LinkOf(View(p), i) # {}
                    THEN DbQuery(p, WOp("updLink", i, NullStr, NullId,
                                        req[p].linkedType, req[p].linkedId), l)
                    ELSE SetLoc(p, l) /\ UNCHANGED <<primary, entities>>
               /\ Respond(p, 200)
          ELSE IF PKViolation(View(p), i) \/ FKViolation(View(p), i)
            THEN /\ SetLoc(p, l)
                 /\ Respond(p, 500)
                 /\ UNCHANGED <<primary, entities>>
            ELSE /\ DbQuery(p, WOp("insLink", i, NullStr, NullId,
                                   req[p].linkedType, req[p].linkedId), l)
                 /\ Respond(p, 200)
     /\ UNCHANGED <<feature, otherVars, nextId, lock, targetVars, req, started>>

\* ------------------------------------------ unlink (DELETE /:id/unlink)
UnlinkCheck(p) == OwnerCheck(p, "x_check", FALSE)

\* DELETE FROM news_entities WHERE news_id = $1
UnlinkDelete(p) ==
  LET t == req[p].tbl
      i == req[p].id
      l == [loc[p] EXCEPT !.pre = LinkOf(View(p), i)]
  IN /\ pc[p] = "x_del"
     /\ Free(t, "link", i, p)
     /\ IF LinkOf(View(p), i) # {}
          THEN DbQuery(p, WOp("delLink", i, NullStr, NullId, NullStr, NullId), l)
          ELSE SetLoc(p, l) /\ UNCHANGED <<primary, entities>>
     /\ Respond(p, 200)
     /\ UNCHANGED <<feature, otherVars, nextId, lock, targetVars, req, started>>

\* ------------------------- modules (POST /modules, PUT /modules/:id)
\* The module a module request writes: the one it inserted, or the one named.
ModuleOf(p) == IF req[p].op = "mcreate" THEN loc[p].newId ELSE req[p].id

\* SELECT * FROM classes WHERE id = $1, then the test of files.length.
ModuleClassCheck(p) ==
  /\ pc[p] = "mc_class"
  /\ IF \A c \in classes : c.id # req[p].linkedId
       THEN Respond(p, 404)
       ELSE IF req[p].files > MAX_FILES
         THEN Respond(p, 400)
         ELSE Goto(p, "mc_ins")
  /\ UNCHANGED <<feature, otherVars, dbVars, targetVars, req, loc, started>>

\* db.pool.connect(), BEGIN, then INSERT INTO modules (class_id, ...)
\* RETURNING * ; class_id REFERENCES classes(id).
ModuleInsert(p) ==
  LET i == nextId["modules"]
  IN /\ pc[p] = "mc_ins"
     /\ i \in OwnerIds
     /\ nextId' = [nextId EXCEPT !["modules"] = i + 1]
     /\ IF \A c \in classes : c.id # req[p].linkedId
          THEN /\ SetLoc(p, connect(loc[p]))
               /\ Goto(p, "rollback")
          ELSE /\ loc' = [loc EXCEPT ![p] =
                    [connect(loc[p]) EXCEPT
                       !.newId = i, !.wrote = TRUE,
                       !.txn = Append(@, WOp("insModule", i, req[p].content,
                                             req[p].user, NullStr, req[p].linkedId))]]
               /\ Goto(p, IF req[p].files > 0 THEN "m_file" ELSE "m_commit")
     /\ UNCHANGED <<feature, otherVars, primary, entities, lock, targetVars, req, started>>

\* SELECT * FROM modules WHERE id = $1 ; the creator-or-aslab test that
\* follows lets every actor authorize(['aslab']) has let in.
ModuleCheck(p) ==
  /\ pc[p] = "mu_check"
  /\ IF \A m \in modules : m.id # req[p].id
       THEN Respond(p, 404)
       ELSE Goto(p, IF req[p].files > 0 THEN "mu_count" ELSE "mu_upd")
  /\ UNCHANGED <<feature, otherVars, dbVars, targetVars, req, loc, started>>

\* SELECT COUNT(*) FROM module_files WHERE module_id = $1 ;
\* if (currentFileCount + files.length > MAX_FILES) 400
ModuleCount(p) ==
  /\ pc[p] = "mu_count"
  /\ IF moduleFiles[req[p].id] + req[p].files > MAX_FILES
       THEN Respond(p, 400)
       ELSE Goto(p, "mu_upd")
  /\ UNCHANGED <<feature, otherVars, dbVars, targetVars, req, loc, started>>

\* db.pool.connect(), BEGIN, then UPDATE modules SET title, content, ...
\* WHERE id = $5 ; the UPDATE waits for a transaction that updated the row.
ModuleUpdate(p) ==
  LET i == req[p].id
  IN /\ pc[p] = "mu_upd"
     /\ \A q \in Procs \ {p} : ~ Buffered(q, "updModule", i)
     /\ loc' = [loc EXCEPT ![p] =
          IF \E m \in ModuleView(p).p : m.id = i
            THEN [connect(loc[p]) EXCEPT
                    !.wrote = TRUE,
                    !.txn = Append(@, WOp("updModule", i, req[p].content,
                                          NullId, NullStr, NullId))]
            ELSE connect(loc[p])]
     /\ Goto(p, IF req[p].files > 0 THEN "m_file" ELSE "m_commit")
     /\ UNCHANGED <<feature, otherVars, dbVars, targetVars, req, started>>

\* for (const file of files) { uploadFile(file, 'module_files');
\* INSERT INTO module_files (module_id, ...) } : one file per step;
\* module_id REFERENCES modules(id).
ModuleFile(p) ==
  LET m == ModuleOf(p)
  IN /\ pc[p] = "m_file"
     /\ IF \A r \in ModuleView(p).p : r.id # m
          THEN /\ Goto(p, "rollback")
               /\ UNCHANGED loc
          ELSE /\ loc' = [loc EXCEPT ![p] =
                    [loc[p] EXCEPT
                       !.filesDone = @ + 1, !.wrote = TRUE,
                       !.txn = Append(@, WOp("insFile", m, NullStr, req[p].user,
                                             NullStr, NullId))]]
               /\ Goto(p, IF loc[p].filesDone + 1 = req[p].files
                            THEN "m_commit" ELSE "m_file")
     /\ UNCHANGED <<feature, otherVars, dbVars, targetVars, req, started>>

\* COMMIT
ModuleCommit(p) ==
  /\ pc[p] = "m_commit"
  /\ modules' = ModuleView(p).p
  /\ moduleFiles' = ModuleView(p).e
  /\ SetLoc(p, [loc[p] EXCEPT !.txn = <<>>])
  /\ Goto(p, "m_read")
  /\ UNCHANGED <<feature, otherVars, dbVars, classes, assignments, req, started>>

\* SELECT m.* ... WHERE m.id = $1 ; SELECT * FROM module_files ... ;
\* completeModule = rows[0]; completeModule.files = filesResult.rows :
\* with no row, the assignment to rows[0].files throws.
ModuleRead(p) ==
  LET m == ModuleOf(p)
      rows == {r \in modules : r.id = m}
  IN /\ pc[p] = "m_read"
     /\ IF rows = {}
          THEN Goto(p, "rollback") /\ UNCHANGED loc
          ELSE /\ SetLoc(p, release([loc[p] EXCEPT !.body =
                      <<[id |-> m, title |-> (CHOOSE r \in rows : TRUE).title,
                         files |-> moduleFiles[m]]>>]))
               /\ Respond(p, IF req[p].op = "mcreate" THEN 201 ELSE 200)
     /\ UNCHANGED <<feature, otherVars, dbVars, targetVars, req, started>>

ModuleTryLabels == {"mc_ins", "mu_upd", "m_file", "m_commit", "m_read"}

\* A statement or an upload inside the try block of a module handler throws.
ModuleFails(p) ==
  /\ pc[p] \in ModuleTryLabels
  /\ SetLoc(p, connect(loc[p]))
  /\ Goto(p, "rollback")
  /\ UNCHANGED <<feature, otherVars, dbVars, targetVars, req, started>>

\* uploadFile(file, 'module_files') throws inside the loop, after the files
\* before it were stored and their rows inserted: the inner catch block runs.
ModuleUploadFails(p) ==
  /\ pc[p] = "m_file"
  /\ SetLoc(p, [loc[p] EXCEPT !.upload = "failed"])
  /\ Goto(p, "rollback")
  /\ UNCHANGED <<feature, otherVars, dbVars, targetVars, req, started>>

\* ------------------------------ submit (POST /assignments/:id/submit)
\* SELECT * FROM assignments WHERE id = $1 ; if (now > deadline) 400 ;
\* fileUrls = the parsed existingFiles ; if (files.length > 0 &&
\* fileUrls.length + files.length > MAX_FILES) 400
SubmitCheck(p) ==
  /\ pc[p] = "s_check"
  /\ IF \A a \in assignments : a.id # req[p].id
       THEN Respond(p, 404)
       ELSE IF now > Deadline
         THEN Respond(p, 400)
         ELSE IF req[p].files > 0 /\ req[p].existingFiles + req[p].files > MAX_FILES
           THEN Respond(p, 400)
           ELSE Goto(p, IF req[p].files > 0 THEN "s_upload" ELSE "s_select")
  /\ UNCHANGED <<feature, otherVars, dbVars, targetVars, req, loc, started>>

\* for (const file of files) { fileUrls.push((await uploadFile(file)).url) }
SubmitUpload(p) ==
  /\ pc[p] = "s_upload"
  /\ Goto(p, "s_select")
  /\ UNCHANGED <<feature, otherVars, dbVars, targetVars, req, loc, started>>

\* uploadFile throws: the catch block answers, nothing was written.
SubmitUploadFails(p) ==
  /\ pc[p] = "s_upload"
  /\ SetLoc(p, [loc[p] EXCEPT !.upload = "failed"])
  /\ Respond(p, 500)
  /\ UNCHANGED <<feature, otherVars, dbVars, targetVars, req, started>>

\* SELECT * FROM submissions WHERE assignment_id = $1 AND user_id = $2
SubmissionOf(a, u) == {r \in submissions : r.assignment_id = a /\ r.user_id = u}

SubmitSelect(p) ==
  /\ pc[p] = "s_select"
  /\ SetLoc(p, [loc[p] EXCEPT !.submissionCheck =
                   SubmissionOf(req[p].id, req[p].user) # {}])
  /\ Goto(p, "s_write")
  /\ UNCHANGED <<feature, otherVars, dbVars, targetVars, req, started>>

\* fileUrls: the kept URLs followed by those of the uploaded files; the list
\* is stored as JSON text, of which the model keeps the number of URLs.
fileUrls(r) == r.existingFiles + r.files

\* The table declared without UNIQUE(assignment_id, user_id).
SubmissionUniqueOff(a, u) == FALSE

\* UNIQUE(assignment_id, user_id)
SubmissionUnique(a, u) == SubmissionOf(a, u) # {}

\* if (submissionCheck.rows.length > 0) UPDATE submissions SET content,
\* file_url, updated_at = CURRENT_TIMESTAMP WHERE assignment_id AND user_id
\* RETURNING * -> 200 ; else INSERT INTO submissions ... RETURNING * -> 201.
\* file_url is VARCHAR(255): the statement throws when the JSON text of a
\* list that is not empty is longer (the URLs are as long as they are).
SubmitWrite(p) ==
  LET a == req[p].id
      u == req[p].user
      new == [id |-> nextId["submissions"], assignment_id |-> a, user_id |-> u,
              content |-> req[p].content, file_url |-> fileUrls(req[p]),
              submitted_at |-> now, updated_at |-> now]
      updated == {IF r \in SubmissionOf(a, u)
                    THEN [r EXCEPT !.content = req[p].content,
                                   !.file_url = fileUrls(req[p]),
                                   !.updated_at = now]
                    ELSE r : r \in submissions}
  IN /\ pc[p] = "s_write"
     /\ \E tooLong \in BOOLEAN :
          /\ tooLong => fileUrls(req[p]) > 0
          /\ IF tooLong
               THEN /\ Respond(p, 500)
                    /\ UNCHANGED <<submissions, nextId, loc>>
               ELSE IF loc[p].submissionCheck
                 THEN /\ submissions' = updated
                      /\ SetLoc(p, [loc[p] EXCEPT
                           !.wrote = SubmissionOf(a, u) # {},
                           !.body = IF SubmissionOf(a, u) = {} THEN <<>>
                                    ELSE <<CHOOSE r \in updated :
                                             r.assignment_id = a /\ r.user_id = u>>])
                      /\ Respond(p, 200)
                      /\ UNCHANGED nextId
                 ELSE IF SubmissionUnique(a, u) \/ \A r \in assignments : r.id # a
                   THEN /\ Respond(p, 500)
                        /\ UNCHANGED <<submissions, nextId, loc>>
                   ELSE /\ submissions' = submissions \cup {new}
                        /\ nextId' = [nextId EXCEPT !["submissions"] = @ + 1]
                        /\ SetLoc(p, [loc[p] EXCEPT !.wrote = TRUE, !.body = <<new>>])
                        /\ Respond(p, 201)
     /\ UNCHANGED <<feature, now, enrollments, users, tokens, primary, entities,
                    lock, targetVars, req, started>>

\* ------------------------------------- enroll (POST /classes/:id/enroll)
\* SELECT * FROM classes WHERE id = $1
EnrollClass(p) ==
  /\ pc[p] = "en_class"
  /\ IF \A c \in classes : c.id # req[p].id
       THEN Respond(p, 404)
       ELSE Goto(p, "en_check")
  /\ UNCHANGED <<feature, otherVars, dbVars, targetVars, req, loc, started>>

\* SELECT * FROM class_enrollments WHERE class_id = $1 AND user_id = $2
EnrollmentOf(c, u) == {r \in enrollments : r.class_id = c /\ r.user_id = u}

\* if (enrollmentCheck.rows.length > 0) 400
EnrollCheck(p) ==
  /\ pc[p] = "en_check"
  /\ IF EnrollmentOf(req[p].id, req[p].user) # {}
       THEN Respond(p, 400)
       ELSE Goto(p, "en_ins")
  /\ UNCHANGED <<feature, otherVars, dbVars, targetVars, req, loc, started>>

\* The table declared without UNIQUE(class_id, user_id).
EnrollmentUniqueOff(c, u) == FALSE

\* UNIQUE(class_id, user_id)
EnrollmentUnique(c, u) == EnrollmentOf(c, u) # {}

\* INSERT INTO class_enrollments (class_id, user_id) VALUES ($1, $2) -> 201 ;
\* refused by the UNIQUE constraint or by class_id REFERENCES classes(id).
EnrollInsert(p) ==
  LET c == req[p].id
      u == req[p].user
  IN /\ pc[p] = "en_ins"
     /\ IF EnrollmentUnique(c, u) \/ \A r \in classes : r.id # c
          THEN /\ Respond(p, 500)
               /\ UNCHANGED <<enrollments, nextId, loc>>
          ELSE /\ enrollments' = enrollments \cup
                    {[id |-> nextId["class_enrollments"], class_id |-> c, user_id |-> u]}
               /\ nextId' = [nextId EXCEPT !["class_enrollments"] = @ + 1]
               /\ SetLoc(p, [loc[p] EXCEPT !.wrote = TRUE])
               /\ Respond(p, 201)
     /\ UNCHANGED <<feature, submissions, now, users, tokens, primary, entities,
                    lock, targetVars, req, started>>

\* ------------------- sessions (POST /register, /login, /logout)
\* jti = crypto.randomBytes(16): a value no other request draws, signed into
\* the token; the model names the token by the number of its request.
tokenOf(r) == r.n

\* SELECT * FROM users WHERE username = $1 OR email = $2 ; 400 when found
RegisterFind(p) ==
  /\ pc[p] = "r_find"
  /\ IF req[p].user \in users
       THEN Respond(p, 400)
       ELSE Goto(p, "r_ins")
  /\ UNCHANGED <<feature, otherVars, dbVars, targetVars, req, loc, started>>

\* bcrypt.hash, then INSERT INTO users ... RETURNING id (username and email
\* are UNIQUE: a concurrent registration of the same user is refused)
RegisterInsert(p) ==
  /\ pc[p] = "r_ins"
  /\ IF req[p].user \in users
       THEN /\ Respond(p, 500)
            /\ UNCHANGED <<users, loc>>
       ELSE /\ users' = users \cup {req[p].user}
            /\ SetLoc(p, [loc[p] EXCEPT !.wrote = TRUE])
            /\ Goto(p, "r_set")
  /\ UNCHANGED <<feature, submissions, now, enrollments, tokens, dbVars,
                 targetVars, req, started>>

\* The key written without regard to the user: SET user_token <token>.
setTokenOfAnyUser(u, token) == [v \in Users |-> token]

\* redisClient.set(`user_token:${user.id}`, token, { EX: 7 days })
setToken(u, token) == [tokens EXCEPT ![u] = token]

\* The token is stored and the request answered: 201 for register, 200 for
\* login.
SessionSet(p, label, code) ==
  /\ pc[p] = label
  /\ tokens' = setToken(req[p].user, tokenOf(req[p]))
  /\ Respond(p, code)
  /\ UNCHANGED <<feature, submissions, now, enrollments, users, dbVars,
                 targetVars, req, loc, started>>

RegisterSet(p) == SessionSet(p, "r_set", 201)

\* SELECT * FROM users WHERE email = $1 ; 401 when there is none
LoginFind(p) ==
  /\ pc[p] = "li_find"
  /\ IF req[p].user \notin users
       THEN Respond(p, 401)
       ELSE Goto(p, "li_compare")
  /\ UNCHANGED <<feature, otherVars, dbVars, targetVars, req, loc, started>>

\* bcrypt.compare(password, user.password) ; 401 when it does not match,
\* else the token is signed.
LoginCompare(p) ==
  /\ pc[p] = "li_compare"
  /\ IF req[p].password # "right"
       THEN Respond(p, 401)
       ELSE Goto(p, "li_set")
  /\ UNCHANGED <<feature, otherVars, dbVars, targetVars, req, loc, started>>

LoginSet(p) == SessionSet(p, "li_set", 200)

\* redisClient.del(`user_token:${userId}`) ; 200
LogoutDel(p) ==
  /\ pc[p] = "lo_del"
  /\ tokens' = [tokens EXCEPT ![req[p].user] = NoToken]
  /\ Respond(p, 200)
  /\ UNCHANGED <<feature, submissions, now, enrollments, users, dbVars,
                 targetVars, req, loc, started>>

\* redisClient.set or redisClient.del throws: the catch block answers 500.
SessionLabels == {"r_set", "li_set", "lo_del"}

SessionStoreFails(p) ==
  /\ pc[p] \in SessionLabels
  /\ Respond(p, 500)
  /\ UNCHANGED <<feature, otherVars, dbVars, targetVars, req, loc, started>>

\* EX: 7 * 24 * 60 * 60 : the key expires seven days after it was set.
Expire(u) ==
  /\ feature = "users"
  /\ tokens[u] # NoToken
  /\ tokens' = [tokens EXCEPT ![u] = NoToken]
  /\ UNCHANGED <<feature, submissions, now, enrollments, users, dbVars,
                 targetVars, pc, req, loc, status, started>>

\* Time passes.
Tick ==
  /\ feature = "assignments"
  /\ now < MaxTime
  /\ now' = now + 1
  /\ UNCHANGED <<feature, submissions, enrollments, users, tokens, dbVars,
                 targetVars, pc, req, loc, status, started>>

\* ------------------------------------------------------------ read routes
\* One SELECT each: the query reads the committed rows of one moment.
ReadAnswer(p, label, rows) ==
  /\ pc[p] = label
  /\ SetLoc(p, [loc[p] EXCEPT !.body = rows])
  /\ Respond(p, 200)
  /\ UNCHANGED <<feature, otherVars, dbVars, targetVars, req, started>>

\* GET /for/:type/:id
ForRead(p) ==
  ReadAnswer(p, "f_read", listByEntity(req[p].tbl, req[p].linkedType, req[p].linkedId))

\* GET /entity/:entityType/:entityId
EntityRead(p) ==
  ReadAnswer(p, "e_read", listEntity(req[p].tbl, req[p].linkedType, req[p].linkedId))

\* GET /
ListRead(p) ==
  ReadAnswer(p, "g_list", orderByCreatedAtDesc(listAll(req[p].tbl)))

\* GET /:id : 500 when the query throws on a parameter that is no integer,
\* 404 when it returns no row, else its first row.
GetRead(p) ==
  /\ pc[p] = "g_id"
  /\ IF req[p].id = NotAnInteger
       THEN Respond(p, 500) /\ UNCHANGED loc
       ELSE IF getById(req[p].tbl, req[p].id) = {}
       THEN Respond(p, 404) /\ UNCHANGED loc
       ELSE /\ SetLoc(p, [loc[p] EXCEPT !.body =
                   <<unordered(getById(req[p].tbl, req[p].id))[1]>>])
            /\ Respond(p, 200)
  /\ UNCHANGED <<feature, otherVars, dbVars, targetVars, req, started>>

\* --------------------------- deletion of classes, modules and assignments
\* The handlers read the row, test creator-or-aslab behind authorize(['aslab'])
\* and send one DELETE; only the DELETE changes the tables.

\* No open transaction has updated module m or inserted a file of it: the
\* DELETE of the row would wait for that transaction.
ModuleRowFree(m) ==
  \A q \in Procs : ~ Buffered(q, "updModule", m) /\ ~ Buffered(q, "insFile", m)

\* DELETE FROM classes WHERE id = $1 (modules.class_id, assignments.class_id
\* and module_files.module_id are ON DELETE CASCADE); the DELETE waits for a
\* transaction that has inserted a module of the class.
DeleteClass(u, i) ==
  /\ started < MaxReqs
  /\ started' = started + 1
  /\ role[u] = "aslab"
  /\ \E r \in classes : r.id = i
  /\ \A q \in Procs : \A k \in 1..Len(loc[q].txn) :
       ~ (loc[q].txn[k].k = "insModule" /\ loc[q].txn[k].entity_id = i)
  /\ \A r \in modules : r.class_id = i => ModuleRowFree(r.id)
  /\ classes' = {r \in classes : r.id # i}
  /\ modules' = {r \in modules : r.class_id # i}
  /\ assignments' = {r \in assignments : r.class_id # i}
  /\ moduleFiles' = [m \in OwnerIds |->
        IF \E r \in modules : r.id = m /\ r.class_id = i THEN 0 ELSE moduleFiles[m]]
  /\ submissions' = {r \in submissions :
        \A a \in assignments : a.id = r.assignment_id => a.class_id # i}
  /\ enrollments' = {r \in enrollments : r.class_id # i}
  /\ UNCHANGED <<feature, now, users, tokens, dbVars, pc, req, loc, status>>

\* DELETE FROM modules WHERE id = $1
DeleteModule(u, i) ==
  /\ started < MaxReqs
  /\ started' = started + 1
  /\ role[u] = "aslab"
  /\ \E r \in modules : r.id = i
  /\ ModuleRowFree(i)
  /\ modules' = {r \in modules : r.id # i}
  /\ moduleFiles' = [moduleFiles EXCEPT ![i] = 0]
  /\ UNCHANGED <<feature, otherVars, dbVars, classes, assignments, pc, req, loc, status>>

\* DELETE /modules/files/:fileId : DELETE FROM module_files WHERE id = $1, for
\* a file of module i found by the SELECT before it.
DeleteFile(u, i) ==
  /\ feature = "modules"
  /\ started < MaxReqs
  /\ started' = started + 1
  /\ role[u] = "aslab"
  /\ moduleFiles[i] > 0
  /\ moduleFiles' = [moduleFiles EXCEPT ![i] = @ - 1]
  /\ UNCHANGED <<feature, otherVars, dbVars, classes, modules, assignments, pc, req, loc, status>>

\* DELETE FROM assignments WHERE id = $1
DeleteAssignment(u, i) ==
  /\ started < MaxReqs
  /\ started' = started + 1
  /\ role[u] = "aslab"
  /\ \E r \in assignments : r.id = i
  /\ assignments' = {r \in assignments : r.id # i}
  /\ submissions' = {r \in submissions : r.assignment_id # i}
  /\ UNCHANGED <<feature, now, enrollments, users, tokens, dbVars, classes, modules,
                 moduleFiles, pc, req, loc, status>>

\* ------------------------------------------------------ specifications
Step(p) ==
  \/ UpdateCheck(p) \/ UpdateEntity(p) \/ UpdateOwner(p)
  \/ UpdateLinkCheck(p) \/ UpdateLinkWrite(p) \/ UpdateLinkDelete(p)
  \/ UpdateCommit(p) \/ UpdateRead(p)
  \/ CreateEntity(p) \/ CreateOwner(p) \/ CreateLink(p)
  \/ CreateCommit(p) \/ CreateRead(p)
  \/ ConnectFails(p) \/ TxnFails(p) \/ ReadFails(p)
  \/ Rollback(p) \/ RollbackFails(p)
  \/ DeleteCheck(p) \/ DeleteOwner(p)
  \/ LinkCheck(p) \/ LinkEntity(p) \/ LinkLinkCheck(p) \/ LinkWrite(p)
  \/ UnlinkCheck(p) \/ UnlinkDelete(p)
  \/ ForRead(p) \/ EntityRead(p) \/ ListRead(p) \/ GetRead(p)
  \/ ModuleClassCheck(p) \/ ModuleInsert(p) \/ ModuleCheck(p) \/ ModuleCount(p)
  \/ ModuleUpdate(p) \/ ModuleFile(p) \/ ModuleCommit(p) \/ ModuleRead(p)
  \/ ModuleFails(p) \/ UploadFails(p) \/ ModuleUploadFails(p)
  \/ SubmitCheck(p) \/ SubmitUpload(p) \/ SubmitUploadFails(p)
  \/ SubmitSelect(p) \/ SubmitWrite(p)
  \/ EnrollClass(p) \/ EnrollCheck(p) \/ EnrollInsert(p)
  \/ RegisterFind(p) \/ RegisterInsert(p) \/ RegisterSet(p)
  \/ LoginFind(p) \/ LoginCompare(p) \/ LoginSet(p)
  \/ LogoutDel(p) \/ SessionStoreFails(p)

TargetDelete ==
  \E u \in Users, i \in EntityIds :
    \/ DeleteClass(u, i) \/ DeleteModule(u, i) \/ DeleteAssignment(u, i)
    \/ DeleteFile(u, i)

Next ==
  \/ \E p \in Procs : Start(p) \/ Step(p)
  \/ TargetDelete
  \/ Tick
  \/ \E u \in Users : Expire(u)

Spec == Init /\ [][Next]_vars

\* One request at a time: a request arrives, and a class, module or
\* assignment is deleted, only while no other request is being served.
Quiet == \A q \in Procs : pc[q] \in {"idle", "done"}

NextSeq ==
  \/ \E p \in Procs : (Quiet /\ Start(p)) \/ Step(p)
  \/ Quiet /\ TargetDelete
  \/ Tick
  \/ \E u \in Users : Expire(u)

SpecSeq == Init /\ [][NextSeq]_vars

\* ================================================================ claims
Committed(t) == [p |-> primary[t], e |-> entities[t]]

OwnerRows(t, i) == {r \in primary[t] : r.id = i}

Target(r) == [owner |-> r.id, entity_type |-> r.linkedType, entity_id |-> r.linkedId]

\* C1: in every reachable state, whatever the interleaving of create, update,
\* link, unlink and delete requests, each news id and each post id has at most
\* one row in news_entities / posts_entities.
AtMostOneLinkRow ==
  \A t \in Tables : \A i \in OwnerIds : Cardinality(LinkOf(Committed(t), i)) <= 1

\* Two requests raced to insert the first link of the same owner; the second
\* INSERT was refused by the primary key and the first row stands.
SecondInsertRefused ==
  \E p \in Procs :
    /\ pc[p] = "done" /\ req[p].op = "link" /\ status[p] = 500
    /\ ~ loc[p].linkCheck
    /\ OwnerRows(req[p].tbl, req[p].id) # {}
    /\ Cardinality(LinkOf(Committed(req[p].tbl), req[p].id)) = 1
    /\ Target(req[p]) \notin entities[req[p].tbl]

\* C5: no link row outlives its owner: every link row belongs to an existing
\* news item / post, and once a delete request has removed an owner no link
\* row keyed by that id exists, without any unlink request.
NoLinkWithoutOwner ==
  /\ \A t \in Tables : \A l \in entities[t] : OwnerRows(t, l.owner) # {}
  /\ \A p \in Procs :
       (pc[p] = "done" /\ req[p].op = "delete" /\ status[p] = 200)
         => /\ OwnerRows(req[p].tbl, req[p].id) = {}
            /\ LinkOf(Committed(req[p].tbl), req[p].id) = {}

\* A delete request removed an owner that had a link row.
LinkedOwnerDeleted ==
  \E p \in Procs :
    /\ pc[p] = "done" /\ req[p].op = "delete" /\ status[p] = 200
    /\ loc[p].wrote /\ loc[p].pre # {}

Stepped(p) == pc'[p] # pc[p]

\* The step of request p writes a link row (buffered or committed).
WritesLink(p) ==
  /\ pc[p] \in {"c_link", "u_write", "l_write"}
  /\ \/ Len(loc'[p].txn) > Len(loc[p].txn)
     \/ entities' # entities

\* C2: whenever create, update or link inserts or updates a link row
\* (kind, entityId), a row of that kind with that id exists at the moment the
\* link row is written, also when a delete of that class, module or assignment
\* comes between the handler's existence check and its link write.
LinkTargetExistsWhenWritten ==
  [][\A p \in Procs :
       WritesLink(p) => entityExists(req[p].linkedType, req[p].linkedId)]_vars

\* C3: the statements of a create / update transaction change nothing other
\* requests can see before COMMIT, and COMMIT publishes the primary-record
\* write and the link-row write of the request together: a created owner
\* appears with its requested link, an updated owner with its new fields and
\* its new link state.
CreateUpdateAtomic ==
  [][\A p \in Procs :
       (pc[p] \in TxnLabels /\ Stepped(p)) =>
         LET t == req[p].tbl
             r == req[p]
         IN IF pc'[p] \in {"c_read", "u_read"}
              THEN IF r.op = "create"
                     THEN /\ OwnerRows(t, loc[p].newId)' =
                               {[id |-> loc[p].newId, created_by |-> r.user,
                                 content |-> r.content,
                                 created_at |-> Timestamp(loc[p].newId)]}
                          /\ LinkOf(Committed(t), loc[p].newId)' =
                               IF Truthy(r.linkedType, r.linkedId)
                                 THEN {[owner |-> loc[p].newId,
                                        entity_type |-> r.linkedType,
                                        entity_id |-> r.linkedId]}
                                 ELSE {}
                     ELSE /\ \A o \in OwnerRows(t, r.id)' :
                               loc[p].wrote => o.content = r.content
                          /\ (\E i \in 1..Len(loc[p].txn) :
                                 loc[p].txn[i].k \in {"insLink", "updLink"})
                               => LinkOf(Committed(t), r.id)' = {Target(r)}
                          /\ (\E i \in 1..Len(loc[p].txn) : loc[p].txn[i].k = "delLink")
                               => LinkOf(Committed(t), r.id)' = {}
              ELSE /\ primary' = primary
                   /\ entities' = entities
                   /\ (r.op = "create" /\ loc'[p].newId # NullId) =>
                        /\ OwnerRows(t, loc'[p].newId) = {}
                        /\ LinkOf(Committed(t), loc'[p].newId) = {}]_vars

\* A create request with a target has committed: the new owner and its link
\* row are both there.
CreatedWithLink ==
  \E p \in Procs :
    /\ pc[p] = "c_read" /\ Truthy(req[p].linkedType, req[p].linkedId)
    /\ OwnerRows(req[p].tbl, loc[p].newId) # {}
    /\ LinkOf(Committed(req[p].tbl), loc[p].newId) # {}

\* C4: when the transaction of an update that names no target commits on an
\* owner that had a link row, the owner has no link row, and GET /:id and
\* GET / show that owner with null linked_type, linked_id and titles.
NullLinkedFields(row) ==
  /\ row.linked_type = NullStr /\ row.linked_id = NullId
  /\ row.class_title = NullStr /\ row.module_title = NullStr
  /\ row.assignment_title = NullStr

UpdateWithoutTargetUnlinks ==
  [][\A p \in Procs :
       (/\ pc[p] = "u_commit" /\ pc'[p] = "u_read"
        /\ ~ Truthy(req[p].linkedType, req[p].linkedId)
        /\ loc[p].pre # {})
       => /\ LinkOf(Committed(req[p].tbl), req[p].id)' = {}
          /\ \A row \in getById(req[p].tbl, req[p].id)' : NullLinkedFields(row)
          /\ \A row \in listAll(req[p].tbl)' :
               row.id = req[p].id => NullLinkedFields(row)]_vars

\* An update without target has been answered 200 on an owner that had a link.
UpdatedLinkedOwnerWithoutTarget ==
  \E p \in Procs :
    /\ pc[p] = "done" /\ req[p].op = "update" /\ status[p] = 200
    /\ ~ Truthy(req[p].linkedType, req[p].linkedId)
    /\ loc[p].pre # {}

Mutations == {"update", "delete", "link", "unlink"}
CheckLabels == {"u_check", "d_check", "l_check", "x_check"}

Arrived(p) == req'[p].n # req[p].n

Refused(p) == pc'[p] = "done" /\ status'[p] = 403

\* Request p of table t is decided in this step (by the middleware when it
\* arrives, or by the handler's creator test) while the item it names exists.
Decided(p, t) ==
  /\ req'[p].tbl = t /\ req'[p].op \in Mutations
  /\ OwnerRows(t, req'[p].id) # {}
  /\ Arrived(p) \/ (pc[p] \in CheckLabels /\ Stepped(p))

\* Request p of table t runs its creator test in this step, on an existing item
\* (the posts routes have no authorize middleware in front of the handler).
DecidedByHandler(p, t) ==
  /\ req[p].tbl = t /\ req[p].op \in Mutations
  /\ OwnerRows(t, req[p].id) # {}
  /\ pc[p] \in CheckLabels /\ Stepped(p)

TheOwner(p, t) == CHOOSE o \in OwnerRows(t, req'[p].id) : TRUE

Untouched(p) == primary' = primary /\ entities' = entities /\ ~ loc'[p].wrote

MissingTargetIs404 ==
  [][\A p \in Procs :
       (/\ pc[p] \in {"u_entity", "l_entity"} /\ Stepped(p)
        /\ req[p].linkedType \in Kinds
        /\ TargetRows(req[p].linkedType, req[p].linkedId) = {})
       => /\ pc'[p] = "done" /\ status'[p] = 404
          /\ Untouched(p)]_vars

\* A link or update request naming a missing target was answered 404; the
\* owner and its earlier link row are still there.
MissingTargetRefused ==
  \E p \in Procs :
    /\ pc[p] = "done" /\ req[p].op \in {"link", "update"} /\ status[p] = 404
    /\ Truthy(req[p].linkedType, req[p].linkedId)
    /\ TargetRows(req[p].linkedType, req[p].linkedId) = {}
    /\ OwnerRows(req[p].tbl, req[p].id) # {}
    /\ LinkOf(Committed(req[p].tbl), req[p].id) # {}
    /\ ~ loc[p].wrote

\* C9: with one request served at a time, a successful link request leaves
\* exactly one link row for its owner, holding the target of that request,
\* and leaves every other link row alone: the same request twice leaves what
\* one leaves, and a second target replaces the first.
LinkIsUpsert ==
  [][\A p \in Procs :
       (pc[p] = "l_write" /\ pc'[p] = "done" /\ status'[p] = 200)
       => LET t == req[p].tbl
          IN entities'[t] =
               (entities[t] \ LinkOf(Committed(t), req[p].id)) \cup {Target(req[p])}]_vars

\* A link request has replaced the earlier link of its owner.
LinkReplaced ==
  \E p \in Procs :
    /\ pc[p] = "done" /\ req[p].op = "link" /\ status[p] = 200
    /\ loc[p].pre # {} /\ loc[p].pre # {Target(req[p])}
    /\ LinkOf(Committed(req[p].tbl), req[p].id) = {Target(req[p])}

\* C10: with one request served at a time, GET /:id after a successful link
\* request returns one row whose linked_type and linked_id are the kind and
\* the entity id of the request.
ReadAfterLink ==
  \A p \in Procs :
    (pc[p] = "done" /\ req[p].op = "link" /\ status[p] = 200)
    => /\ getById(req[p].tbl, req[p].id) # {}
       /\ \A row \in getById(req[p].tbl, req[p].id) :
            /\ row.linked_type = req[p].linkedType
            /\ row.linked_id = req[p].linkedId

\* A link request has been answered 200 and the owner reads back linked.
LinkedThenRead ==
  \E p \in Procs :
    /\ pc[p] = "done" /\ req[p].op = "link" /\ status[p] = 200
    /\ \E row \in getById(req[p].tbl, req[p].id) : row.linked_id = req[p].linkedId

\* The request p holds after this step names a kind outside the closed set.
NamesOtherKind(p) == req'[p].linkedType # NullStr /\ req'[p].linkedType \notin Kinds

\* C11: every link row of news_entities and posts_entities has a kind in
\* {class, module, assignment}; a create or update request naming another
\* kind is answered 400 by the handler's validation, a link request naming
\* another kind is answered 400 once its owner check has passed, and no
\* request naming another kind writes anything.
KindsClosed ==
  [][/\ \A t \in Tables : \A l \in entities'[t] : l.entity_type \in Kinds
     /\ \A p \in Procs :
          NamesOtherKind(p) =>
            /\ ~ loc'[p].wrote /\ loc'[p].txn = <<>>
            /\ (/\ Arrived(p) /\ req'[p].op \in {"create", "update"}
                /\ authorize(req'[p].tbl, req'[p].user))
                 => (pc'[p] = "done" /\ status'[p] = 400 /\ Untouched(p))
            /\ (/\ pc[p] = "l_check" /\ Stepped(p)
                /\ \E o \in OwnerRows(req[p].tbl, req[p].id) :
                     canMutate(req[p].tbl, o, req[p].user))
                 => (pc'[p] = "done" /\ status'[p] = 400 /\ Untouched(p))]_vars

\* A link request naming another kind on an existing owner the actor may
\* mutate was answered 400, and the owner's link row is as it was.
OtherKindRefused ==
  \E p \in Procs :
    /\ pc[p] = "done" /\ req[p].op = "link" /\ status[p] = 400
    /\ req[p].linkedType \notin Kinds
    /\ \E o \in OwnerRows(req[p].tbl, req[p].id) : canMutate(req[p].tbl, o, req[p].user)
    /\ LinkOf(Committed(req[p].tbl), req[p].id) =
         {[owner |-> 1, entity_type |-> "class", entity_id |-> 1]}

\* The title of the row of the given kind and id, when there is one.
TitlesOf(kind, id) == {x.title : x \in TargetRows(kind, id)}

\* The <kind>_title field of a response row.
TitleField(row, kind) ==
  CASE kind = "class" -> row.class_title
    [] kind = "module" -> row.module_title
    [] kind = "assignment" -> row.assignment_title
    [] OTHER -> NullStr

\* C12: a create request that names a valid kind and the id of an existing
\* row of that kind passes the existence check; its COMMIT leaves the link
\* row (kind, id) for the new owner; and its answer is 201 with a body whose
\* linked_type is the kind, whose linked_id is the id and, the target still
\* existing when its title is read, whose <kind>_title is that row's title.
CreateAnswersLinked ==
  [][\A p \in Procs :
       LET r == req[p]
           t == r.tbl
       IN (/\ r.op = "create" /\ Stepped(p)
           /\ r.linkedType \in Kinds /\ r.linkedId # NullId)
          => /\ (pc[p] = "c_entity" /\ entityExists(r.linkedType, r.linkedId))
                  => pc'[p] = "c_ins"
             /\ (pc[p] = "c_commit" /\ pc'[p] = "c_read")
                  => LinkOf(Committed(t), loc[p].newId)' =
                       {[owner |-> loc[p].newId, entity_type |-> r.linkedType,
                         entity_id |-> r.linkedId]}
             /\ (pc[p] = "c_read" /\ pc'[p] = "done")
                  => /\ status'[p] = 201
                     /\ Len(loc'[p].body) = 1
                     /\ \A row \in {loc'[p].body[1]} :
                          /\ row.id = loc[p].newId
                          /\ row.linked_type = r.linkedType
                          /\ row.linked_id = r.linkedId
                          /\ \A title \in TitlesOf(r.linkedType, r.linkedId) :
                               TitleField(row, r.linkedType) = title]_vars

\* A create request linked to class 1 was answered 201 with the title of
\* class 1, and the new owner has its link row.
CreatedAnsweredWithTitle ==
  \E p \in Procs :
    /\ pc[p] = "done" /\ req[p].op = "create" /\ status[p] = 201
    /\ req[p].linkedType = "class" /\ req[p].linkedId = 1
    /\ \E row \in {loc[p].body[1]} :
         row.class_title = "Class 1" /\ row.linked_type = "class" /\ row.linked_id = 1
    /\ LinkOf(Committed(req[p].tbl), loc[p].newId) =
         {[owner |-> loc[p].newId, entity_type |-> "class", entity_id |-> 1]}

\* The ids of the rows of a response body, and the body being newest first
\* with no owner twice.
BodyIds(b) == {b[k].id : k \in 1..Len(b)}

NewestFirst(b) ==
  \A j, k \in 1..Len(b) :
    j < k => (b[j].created_at >= b[k].created_at /\ b[j].id # b[k].id)

\* The owners of table t whose link row is (kind, id) now.
LinkedTo(t, kind, id) ==
  {i \in OwnerIds :
     /\ OwnerRows(t, i) # {}
     /\ [owner |-> i, entity_type |-> kind, entity_id |-> id] \in entities[t]}

\* C13: GET /for/:type/:id and GET /entity/:entityType/:entityId answer 400
\* for a kind outside the closed set; for a valid kind they answer 200 with
\* exactly the existing owners whose link row is (kind, id) at the moment of
\* the query, each once with its own fields, newest first; an owner unlinked,
\* linked to another target or deleted before the query is not among them.
ListByEntityExact ==
  [][\A p \in Procs :
       /\ (Arrived(p) /\ req'[p].op \in {"for", "entity"}
             /\ req'[p].linkedType \notin Kinds)
            => (pc'[p] = "done" /\ status'[p] = 400 /\ loc'[p].body = <<>>)
       /\ (pc[p] \in {"f_read", "e_read"} /\ Stepped(p))
            => LET t == req[p].tbl
                   b == loc'[p].body
               IN /\ status'[p] = 200
                  /\ BodyIds(b) = LinkedTo(t, req[p].linkedType, req[p].linkedId)
                  /\ NewestFirst(b)
                  /\ \A k \in 1..Len(b) :
                       /\ \E o \in OwnerRows(t, b[k].id) :
                            /\ b[k].content = o.content
                            /\ b[k].created_by = o.created_by
                       /\ req[p].op = "for" =>
                            /\ b[k].linked_type = req[p].linkedType
                            /\ b[k].linked_id = req[p].linkedId]_vars

\* Owner 1, linked to class 1, was unlinked or linked to another target by
\* an earlier request; the list of class 1 read afterwards is empty although
\* owner 1 exists.
UnlinkedOwnerNotListed ==
  \E p, q \in Procs :
    /\ pc[p] = "done" /\ req[p].op = "for" /\ status[p] = 200
    /\ req[p].linkedType = "class" /\ req[p].linkedId = 1
    /\ loc[p].body = <<>>
    /\ pc[q] = "done" /\ req[q].op \in {"unlink", "link"} /\ status[q] = 200
    /\ req[q].id = 1 /\ req[q].n < req[p].n
    /\ loc[q].pre = {[owner |-> 1, entity_type |-> "class", entity_id |-> 1]}
    /\ OwnerRows(req[p].tbl, 1) # {}

\* The entry of a list shows the link row l of its owner: kind and id of the
\* row, under <kind>_title the title of the target when the target exists and
\* null when it does not, and null under the titles of the other kinds.
ShowsLink(row, l) ==
  /\ row.linked_type = l.entity_type /\ row.linked_id = l.entity_id
  /\ \A kind \in Kinds :
       TitleField(row, kind) =
         IF kind = l.entity_type /\ TitlesOf(kind, l.entity_id) # {}
           THEN CHOOSE x \in TitlesOf(kind, l.entity_id) : TRUE
           ELSE NullStr

\* The entry shows the link row l and carries the title of an existing target.
ShowsLinkAndTitle(row, l) ==
  /\ ShowsLink(row, l)
  /\ TitlesOf(l.entity_type, l.entity_id) # {}

\* The answer b of GET / is right about the owners: each existing owner once,
\* newest first, with its own fields, and null linked fields without link row.
ListsOwners(t, b) ==
  /\ BodyIds(b) = {o.id : o \in primary[t]}
  /\ NewestFirst(b)
  /\ \A k \in 1..Len(b) :
       /\ \E o \in OwnerRows(t, b[k].id) :
            b[k].content = o.content /\ b[k].created_by = o.created_by
       /\ LinkOf(Committed(t), b[k].id) = {} => NullLinkedFields(b[k])

\* C14 as stated: GET / lists each existing owner once, newest first; an
\* owner with a link row is shown with the kind and id of the row and the
\* title of the target entity, also after the target has been deleted.
ListAllCarriesTitle ==
  [][\A p \in Procs :
       (pc[p] = "g_list" /\ Stepped(p))
       => LET t == req[p].tbl
              b == loc'[p].body
          IN /\ status'[p] = 200 /\ ListsOwners(t, b)
             /\ \A k \in 1..Len(b) :
                  \A l \in LinkOf(Committed(t), b[k].id) : ShowsLinkAndTitle(b[k], l)]_vars

\* C14 amended: GET / lists each existing owner once, newest first; an owner
\* with a link row is shown with the kind and id of the row and, under
\* <kind>_title, the title of the target while the target exists and null once
\* it has been deleted; an owner without link row has null linked fields.
ListAllShowsLinks ==
  [][\A p \in Procs :
       (pc[p] = "g_list" /\ Stepped(p))
       => LET t == req[p].tbl
              b == loc'[p].body
          IN /\ status'[p] = 200 /\ ListsOwners(t, b)
             /\ \A k \in 1..Len(b) :
                  \A l \in LinkOf(Committed(t), b[k].id) : ShowsLink(b[k], l)]_vars

\* Class 1 was deleted while owner 1 was linked to it; GET / then showed
\* owner 1 with linked_type class, linked_id 1 and no class title.
ListedWithDeletedTarget ==
  \E p \in Procs :
    /\ pc[p] = "done" /\ req[p].op = "list" /\ status[p] = 200
    /\ classes = {}
    /\ \E k \in 1..Len(loc[p].body) :
         /\ loc[p].body[k].id = 1
         /\ loc[p].body[k].linked_type = "class" /\ loc[p].body[k].linked_id = 1
         /\ loc[p].body[k].class_title = NullStr

\* C15 as stated: update, delete, link and unlink answer 403 only for an
\* existing owner, whatever the role of the actor; for an owner id that does
\* not exist the answer is never 403.
ForbiddenOnlyForExistingOwner ==
  [][\A p \in Procs :
       (/\ req'[p].op \in Mutations
        /\ Arrived(p) \/ (pc[p] \in CheckLabels /\ Stepped(p))
        /\ status'[p] = 403)
       => OwnerRows(req'[p].tbl, req'[p].id) # {}]_vars

\* C15 amended: a praktikan's update, delete, link or unlink of news is
\* answered 403 on arrival, whether the id exists or not, and no other
\* mutation request is answered 403 on arrival; a handler that looks for an
\* owner id that does not exist answers 404 and changes nothing, and a
\* handler answers 403 only for an existing owner its actor may not mutate.
NotFoundBeforeForbidden ==
  [][\A p \in Procs :
       /\ (Arrived(p) /\ req'[p].op \in Mutations)
            => (status'[p] = 403
                  <=> (req'[p].tbl = "news" /\ role[req'[p].user] # "aslab"))
       /\ (pc[p] \in CheckLabels /\ Stepped(p))
            => LET t == req[p].tbl
                   u == req[p].user
               IN /\ OwnerRows(t, req[p].id) = {}
                       => (pc'[p] = "done" /\ status'[p] = 404 /\ Untouched(p))
                  /\ status'[p] = 403
                       => \E o \in OwnerRows(t, req[p].id) :
                            /\ o.created_by # u
                            /\ t = "news" => role[u] # "aslab"]_vars

\* A praktikan asked to change news item 2, which never existed, and was
\* answered 403; an aslab asking the same is answered 404.
PraktikanForbiddenOnMissingNews ==
  \E p \in Procs :
    /\ pc[p] = "done" /\ req[p].tbl = "news" /\ req[p].op \in Mutations
    /\ role[req[p].user] = "praktikan" /\ status[p] = 403
    /\ req[p].id = 2 /\ nextId["news"] = 2 /\ OwnerRows("news", 2) = {}
    /\ \E q \in Procs :
         /\ pc[q] = "done" /\ req[q].tbl = "news" /\ req[q].op = req[p].op
         /\ req[q].id = 2 /\ role[req[q].user] = "aslab" /\ status[q] = 404

\* The writes of request p have been committed: its transaction wrote and
\* has been closed by COMMIT (a ROLLBACK comes only from the catch block,
\* which empties the transaction in the step that answers).
PersistedWrites(p) == loc[p].wrote /\ loc[p].txn = <<>>

\* C16: when a create or update request is answered 500 out of the try block
\* that starts with BEGIN, none of its writes is persisted: the transaction
\* was not committed, and the owner a create inserted does not exist.
FailedRequestPersistsNothing ==
  [][\A p \in Procs :
       (/\ pc[p] = "rollback" /\ pc'[p] = "done" /\ status'[p] = 500
        /\ req[p].op \in {"create", "update"})
       => /\ ~ PersistedWrites(p)
          /\ loc[p].newId # NullId => OwnerRows(req[p].tbl, loc[p].newId)' = {}]_vars

\* The connections borrowed from the pool and not given back.
Borrowed == {p \in Procs : loc[p].client = "held"}

\* C17: a connection taken by a news, post or module create / update handler
\* stays with its request until the request answers and is released in the
\* step that answers, exactly once, whichever way the handler ends (COMMIT
\* and response, a failing statement, a failing read after COMMIT, a failing
\* ROLLBACK); a request that has answered holds no connection, so none is
\* borrowed once all requests have finished.
ConnectionReleasedOnce ==
  [][\A p \in Procs :
       /\ loc'[p].releases <= 1
       /\ loc'[p].client = "released" <=> loc'[p].releases = 1
       /\ pc'[p] \in {"idle", "done"} => loc'[p].client # "held"
       /\ loc[p].client = "held" =>
            \/ loc'[p].client = "held" /\ pc'[p] \notin {"idle", "done"}
            \/ /\ loc'[p].client = "released" /\ pc'[p] = "done"
               /\ loc'[p].releases = loc[p].releases + 1
       /\ (loc[p].client # "held" /\ loc'[p].client = "held")
            => (pc[p] \in ConnectLabels /\ loc'[p].releases = 0)]_vars

\* All requests have finished, one answered after its COMMIT and one was
\* answered 500 after its COMMIT because a later read failed; each released
\* its connection once and none is borrowed.
AllReleasedAfterFailure ==
  /\ Quiet /\ started = MaxReqs /\ Borrowed = {}
  /\ \E p, q \in Procs :
       /\ status[p] = 500 /\ PersistedWrites(p) /\ loc[p].releases = 1
       /\ status[q] \in {200, 201} /\ loc[q].releases = 1

\* Every request started so far is an update of owner i of table t, and no
\* class, module or assignment has been deleted.
OnlyUpdatesOf(t, i) ==
  \A k \in 1..started :
    \E q \in Procs :
      req[q].n = k /\ req[q].op = "update" /\ req[q].tbl = t /\ req[q].id = i

\* The link rows an update request asks for.
Requested(r) == IF Truthy(r.linkedType, r.linkedId) THEN {Target(r)} ELSE {}

LinkWriting(r) ==
  \/ r.op = "link"
  \/ r.op = "update" /\ Truthy(r.linkedType, r.linkedId)

\* p and q are the only requests so far, and both write the link of one owner.
OnlyLinkWriters(p, q) ==
  /\ p # q
  /\ LinkWriting(req[p]) /\ LinkWriting(req[q])
  /\ req[p].tbl = req[q].tbl /\ req[p].id = req[q].id
  /\ \A k \in 1..started : req[p].n = k \/ req[q].n = k

\* C19: when two link-writing requests (link endpoint, or update with a
\* target) run concurrently on an owner that has no link row yet, the request
\* that found no link row has its INSERT accepted (it is not answered with a
\* server error because of the other), and once both are answered 200 exactly
\* one link row remains, holding the target of one of the two.
FirstLinkersBothSucceed ==
  [][\A p, q \in Procs :
       LET t == req[p].tbl
           i == req[p].id
       IN OnlyLinkWriters(p, q) =>
            /\ (pc[p] \in {"l_write", "u_write"} /\ ~ loc[p].linkCheck /\ Stepped(p))
                 => ~ PKViolation(View(p), i)
            /\ (pc'[p] = "done" /\ pc'[q] = "done"
                /\ status'[p] = 200 /\ status'[q] = 200)
                 => /\ Cardinality(LinkOf(Committed(t), i)') = 1
                    /\ LinkOf(Committed(t), i)' \subseteq {Target(req[p]), Target(req[q])}]_vars

\* Request p found a link row of its owner and is replacing it, or has.
Replacing(p) ==
  /\ LinkWriting(req[p]) /\ loc[p].linkCheck
  /\ pc[p] \in {"l_write", "u_write", "u_commit", "u_read", "rollback", "done"}

\* Every request so far other than p only reads.
OnlyReadersBeside(p) ==
  \A k \in 1..started :
    \E q \in Procs : req[q].n = k /\ (q = p \/ req[q].op \in ReadOps)

\* Every row of owner i in a response body carries a link.
ShowsLinked(b, i) ==
  \A k \in 1..Len(b) : b[k].id = i => b[k].linked_type \in Kinds

\* C20: while link or update replaces the existing link of an owner by
\* another target, with only reads running beside it, no step of the
\* replacing request leaves the owner without a committed link row, and every
\* GET /:id and GET / answered meanwhile shows the owner with a link.
ReplaceKeepsLinkVisible ==
  [][\A p \in Procs :
       LET t == req[p].tbl
           i == req[p].id
       IN (Replacing(p) /\ OnlyReadersBeside(p) /\ req'[p] = req[p]) =>
            /\ LinkOf(Committed(t), i) # {}
            /\ LinkOf(Committed(t), i)' # {}
            /\ \A q \in Procs \ {p} :
                 (/\ req[q].op = "list" \/ (req[q].op = "get" /\ req[q].id = i)
                  /\ req[q].tbl = t
                  /\ pc[q] \in {"g_id", "g_list"} /\ pc'[q] = "done")
                 => /\ status'[q] = 200
                    /\ ShowsLinked(loc'[q].body, i)
                    /\ \E k \in 1..Len(loc'[q].body) : loc'[q].body[k].id = i]_vars

\* An update has buffered the replacement of the link of owner 1 by another
\* target and has not committed; a GET /1 that started after it has been
\* answered with the link the owner had before.
ReadDuringReplace ==
  \E p, q \in Procs :
    /\ req[p].op = "update" /\ req[p].id = 1 /\ pc[p] = "u_commit"
    /\ Buffered(p, "updLink", 1)
    /\ loc[p].pre # {} /\ Target(req[p]) \notin loc[p].pre
    /\ req[q].op = "get" /\ req[q].tbl = req[p].tbl /\ req[q].id = 1
    /\ req[q].n > req[p].n
    /\ pc[q] = "done" /\ status[q] = 200
    /\ Len(loc[q].body) = 1
    /\ \E l \in loc[p].pre :
         loc[q].body[1].linked_type = l.entity_type /\ loc[q].body[1].linked_id = l.entity_id

\* C21: a news/post create, update, delete, link or unlink request answered
\* with 400, 403 or 404 has performed no database write: the step that
\* answers leaves news, news_entities, posts and posts_entities and the id
\* sequence as they were, no earlier step of the request wrote, and it holds
\* no open transaction.
ClientErrorWritesNothing ==
  [][\A p \in Procs :
       (/\ req'[p].tbl \in Tables
        /\ req'[p].op \in Mutations \cup {"create"}
        /\ Arrived(p) \/ Stepped(p)
        /\ pc'[p] = "done" /\ status'[p] \in {400, 403, 404})
       => /\ Untouched(p)
          /\ nextId' = nextId
          /\ loc'[p].txn = <<>>]_vars

\* An update by a permitted actor naming a target that does not exist has
\* been answered 404 after its owner check passed, and wrote nothing.
RefusedAfterChecks ==
  \E p \in Procs :
    /\ pc[p] = "done" /\ ~ loc[p].wrote
    /\ req[p].op = "update" /\ status[p] = 404
    /\ OwnerRows(req[p].tbl, req[p].id) # {}
    /\ validKind(req[p].linkedType)
    /\ ~ entityExists(req[p].linkedType, req[p].linkedId)

\* The request carries only linkedType or only linkedId.
Partial(r) == <<r.linkedType, r.linkedId>> \in PartialTargets

LinkStatementHitNothing(p) ==
  /\ loc[p].pre = {}
  /\ Truthy(req[p].linkedType, req[p].linkedId) => loc[p].linkCheck

Stored == <<primary, entities, modules, moduleFiles>>

\* C23: when uploadFile throws while a create or update of a news item, a
\* post or a module is handled, nothing the request wrote has been committed
\* at that moment, the step in which the upload fails and the step in which
\* the catch block answers leave every stored row as it was, the answer is
\* 500, and the request's transaction is discarded with all it wrote: the
\* owner or module and the module_files rows of the files stored before.
UploadFailurePersistsNothing ==
  [][\A p \in Procs :
       /\ (loc'[p].upload = "failed" /\ loc[p].upload # "failed")
            => /\ ~ PersistedWrites(p)
               /\ Stored' = Stored
               /\ pc'[p] = "done" => status'[p] = 500 /\ ~ loc[p].wrote
       /\ (loc[p].upload = "failed" /\ pc[p] = "rollback" /\ Stepped(p))
            => /\ Stored' = Stored
               /\ pc'[p] = "done" /\ status'[p] = 500
               /\ loc'[p].txn = <<>>
               /\ req[p].op = "mcreate" =>
                    /\ \A m \in modules' : m.id # loc[p].newId
                    /\ moduleFiles'[loc[p].newId] = 0]_vars

\* A module create with two files has stored the first file and inserted its
\* row, the upload of the second has failed, the request has been answered
\* 500, and neither the module nor a file row of it exists.
SecondUploadFailed ==
  \E p \in Procs :
    /\ req[p].op = "mcreate" /\ req[p].files = 2
    /\ loc[p].upload = "failed" /\ loc[p].filesDone = 1
    /\ pc[p] = "done" /\ status[p] = 500
    /\ \A m \in modules : m.id # loc[p].newId
    /\ moduleFiles[loc[p].newId] = 0

\* C24: in every reachable state, after any module create, update and
\* file-delete requests, concurrent updates of one module included, each
\* module has at most MAX_FILES module_files rows.
ModuleFilesAtMostMax ==
  \A m \in OwnerIds : moduleFiles[m] <= MAX_FILES

\* C25: in every reachable state each stored submission lists at most
\* MAX_FILES file URLs, whatever existingFiles array and uploaded files the
\* submit requests carried.
StoredListAtMostMax ==
  \A r \in submissions : r.file_url <= MAX_FILES

\* C26: in every reachable state no submission row was inserted or updated
\* at a time later than the deadline of its assignment.
NoWriteAfterDeadline ==
  \A r \in submissions : r.updated_at <= Deadline /\ r.submitted_at <= Deadline

\* C28: submit is an upsert keyed by (assignment, user).  Each pair has at
\* most one submission row after every step, two concurrent submits of one
\* user included; a submit answered 201 found no row of the pair and leaves
\* exactly one, holding its content and file list; a submit answered 200
\* for an assignment that still exists found the row of the pair and leaves
\* that same row, with its content and file list overwritten.
SubmitIsUpsert ==
  [][/\ \A a \in EntityIds, u \in Users : Cardinality(SubmissionOf(a, u)') <= 1
     /\ \A p \in Procs :
          LET a == req[p].id
              u == req[p].user
          IN (req[p].op = "submit" /\ pc[p] = "s_write" /\ pc'[p] = "done") =>
               /\ status'[p] \in {200, 201, 500}
               /\ status'[p] = 201 =>
                    /\ SubmissionOf(a, u) = {}
                    /\ \E r \in submissions' :
                         /\ SubmissionOf(a, u)' = {r}
                         /\ r.content = req[p].content
                         /\ r.file_url = fileUrls(req[p])
               /\ (status'[p] = 200 /\ \E x \in assignments : x.id = a) =>
                    \E old \in submissions, r \in submissions' :
                      /\ SubmissionOf(a, u) = {old}
                      /\ SubmissionOf(a, u)' = {r}
                      /\ r.id = old.id /\ r.submitted_at = old.submitted_at
                      /\ r.content = req[p].content
                      /\ r.file_url = fileUrls(req[p])
               /\ status'[p] = 500 => submissions' = submissions]_vars

\* Two submits of one user for one assignment ran concurrently and neither
\* found a row: one was answered 201, the INSERT of the other was refused,
\* and the pair has one row.
ConcurrentFirstSubmits ==
  \E p, q \in Procs :
    /\ p # q /\ req[p].op = "submit" /\ req[q].op = "submit"
    /\ req[p].id = req[q].id /\ req[p].user = req[q].user
    /\ pc[p] = "done" /\ pc[q] = "done"
    /\ ~ loc[p].submissionCheck /\ ~ loc[q].submissionCheck
    /\ status[p] = 201 /\ status[q] = 500
    /\ fileUrls(req[q]) = 0
    /\ Cardinality(SubmissionOf(req[p].id, req[p].user)) = 1

\* C27: after every step there is at most one class_enrollments row per
\* (class, user); an enroll request that finds the user enrolled is answered
\* 400 and changes nothing; an enroll answered 201 found no row of the pair
\* and adds exactly one, so of two concurrent enrolls of one user in one
\* class one creates the row and the other creates none.
EnrollOncePerClass ==
  [][/\ \A c \in EntityIds, u \in Users : Cardinality(EnrollmentOf(c, u)') <= 1
     /\ \A p \in Procs :
          LET c == req[p].id
              u == req[p].user
          IN /\ (req[p].op = "enroll" /\ pc[p] = "en_check" /\ Stepped(p)
                 /\ EnrollmentOf(c, u) # {})
               => status'[p] = 400 /\ enrollments' = enrollments /\ ~ loc'[p].wrote
             /\ (req[p].op = "enroll" /\ pc[p] = "en_ins" /\ Stepped(p))
               => IF status'[p] = 201
                    THEN /\ EnrollmentOf(c, u) = {}
                         /\ Cardinality(EnrollmentOf(c, u)') = 1
                         /\ Cardinality(enrollments') = Cardinality(enrollments) + 1
                    ELSE status'[p] = 500 /\ enrollments' = enrollments]_vars

\* Two enrolls of one user in one class ran concurrently, both past the
\* check for an existing enrollment: one was answered 201, the INSERT of the
\* other was refused, and the pair has one row.
ConcurrentEnrollsOneRow ==
  \E p, q \in Procs :
    /\ p # q /\ req[p].op = "enroll" /\ req[q].op = "enroll"
    /\ req[p].id = req[q].id /\ req[p].user = req[q].user
    /\ pc[p] = "done" /\ pc[q] = "done"
    /\ status[p] = 201 /\ status[q] = 500
    /\ \E c \in classes : c.id = req[p].id
    /\ Cardinality(EnrollmentOf(req[p].id, req[p].user)) = 1

\* A request step of user u that answers in this step with the given status.
Answers(p, u, ops, codes) ==
  /\ req[p].user = u /\ req[p].op \in ops
  /\ pc[p] \in SessionLabels /\ pc'[p] = "done" /\ status'[p] \in codes

\* C29 as stated: the key user_token:<u> changes only when a register or
\* login of u succeeds, and then holds the token issued to that request in
\* place of any earlier one, or when a logout of u completes, and then is
\* absent; so it always holds the token of the most recent successful
\* register/login, or nothing after a logout with no later login.
TokenOfLatestLogin ==
  [][\A u \in Users :
       /\ \A p \in Procs :
            /\ Answers(p, u, {"register", "login"}, {200, 201})
                 => tokens'[u] = tokenOf(req[p])
            /\ Answers(p, u, {"logout"}, {200}) => tokens'[u] = NoToken
       /\ tokens'[u] # tokens[u] =>
            \E p \in Procs :
              \/ Answers(p, u, {"register", "login"}, {200, 201})
              \/ Answers(p, u, {"logout"}, {200})]_vars

\* C29 amended: as stated, except that the key also becomes absent, with no
\* request of the user answering, when it expires seven days after it was
\* set; it never holds a token other than that of the most recent
\* successful register/login of the user.
TokenOfLatestLoginUntilExpiry ==
  [][\A u \in Users :
       /\ \A p \in Procs :
            /\ Answers(p, u, {"register", "login"}, {200, 201})
                 => tokens'[u] = tokenOf(req[p])
            /\ Answers(p, u, {"logout"}, {200}) => tokens'[u] = NoToken
       /\ tokens'[u] # tokens[u] =>
            \/ \E p \in Procs :
                 \/ Answers(p, u, {"register", "login"}, {200, 201})
                 \/ Answers(p, u, {"logout"}, {200})
            \/ tokens'[u] = NoToken /\ UNCHANGED <<pc, status, users>>]_vars

\* Two logins of user 1 have succeeded one after the other: the key holds
\* the token of the second, which is not the token of the first.
SecondLoginReplaced ==
  \E p, q \in Procs :
    /\ p # q /\ req[p].op = "login" /\ req[q].op = "login"
    /\ req[p].user = 1 /\ req[q].user = 1
    /\ pc[p] = "done" /\ status[p] = 200
    /\ pc[q] = "done" /\ status[q] = 200
    /\ tokens[1] = tokenOf(req[q]) /\ tokenOf(req[q]) # tokenOf(req[p])
    /\ tokenOf(req[q]) > tokenOf(req[p])

\* C30: a GET request for /with-entity is served by the with-entity handler,
\* not by the handler of GET /:id with id = 'with-entity': it never waits at
\* the query of GET /:id, and its answer is the 200 that carries the list.
WithEntityServedByItsHandler ==
  \A p \in Procs :
    req[p].path = WithEntityPath =>
      /\ pc[p] \in {"we_read", "done"}
      /\ pc[p] = "done" => status[p] = 200

====
